---- MODULE Spec2Model ----
(***************************************************************************)
(* nodeBook: the CNL parser (cnl-parser.ts), the graph assembler           *)
(* (morph-registry.ts, operationsToGraph) and the Petri-net engine of the  *)
(* graph component (nodebook-graph.tsx), as state machines.                *)
(*                                                                         *)
(* Text is modelled after lexing: a CNL text is a sequence of lines, a     *)
(* line is a record naming its kind and its captured groups, and a name is *)
(* the sequence of its whitespace-separated words.  An id, which the code  *)
(* builds by joining cleaned parts with "_", is the sequence of its parts. *)
(***************************************************************************)
EXTENDS Integers, Sequences, FiniteSets, TLC

\* An absent string; an absent name, adjective or id is the empty sequence.
Null == "null"

(***************************************************************************)
(* Lines of a CNL text.                                                    *)
(***************************************************************************)
\* "# **adj** Name [Type]"
NodeLine(name, type, adj) ==
    [k |-> "node", name |-> name, type |-> type, adj |-> adj,
     value |-> Null, unit |-> Null, targets |-> <<>>, indent |-> 0, rel |-> <<>>]

\* "## Morph Name"
MorphLine(name) ==
    [k |-> "morph", name |-> name, type |-> Null, adj |-> <<>>,
     value |-> Null, unit |-> Null, targets |-> <<>>, indent |-> 0, rel |-> <<>>]

\* "name: value *unit*;"
AttrLine(name, value, unit) ==
    [k |-> "attr", name |-> name, type |-> Null, adj |-> <<>>,
     value |-> value, unit |-> unit, targets |-> <<>>, indent |-> 0, rel |-> <<>>]

\* "has function "name";"
FuncLine(name) ==
    [k |-> "func", name |-> name, type |-> Null, adj |-> <<>>,
     value |-> Null, unit |-> Null, targets |-> <<>>, indent |-> 0, rel |-> <<>>]

\* "<name> target1; target2;"
RelLine(name, targets) ==
    [k |-> "rel", name |-> name, type |-> Null, adj |-> <<>>,
     value |-> Null, unit |-> Null, targets |-> targets, indent |-> 0, rel |-> <<>>]

\* "# Root <relation>"
MindmapHeadLine(name, rel) ==
    [k |-> "mmhead", name |-> name, type |-> Null, adj |-> <<>>,
     value |-> Null, unit |-> Null, targets |-> <<>>, indent |-> 0, rel |-> rel]

\* "  - Child" (indent = number of leading whitespace characters)
MindmapItemLine(indent, name) ==
    [k |-> "mmitem", name |-> name, type |-> Null, adj |-> <<>>,
     value |-> Null, unit |-> Null, targets |-> <<>>, indent |-> indent, rel |-> <<>>]

\* One semicolon-delimited target of a relation line: "6 CO2" has a leading
\* numeric token (hasW, w); "**adj** Name" has an adjective.
\* decimals is the number of digits written after the numeric token's point
\* (0: none); the model writes zeros there, so the token denotes w.
Target(hasW, w, name, adj) ==
    [hasW |-> hasW, w |-> w, decimals |-> 0, name |-> name, adj |-> adj]

\* "6.000 CO2": a numeric token written with `decimals` zeros after the point.
DecimalTarget(w, decimals, name, adj) ==
    [hasW |-> TRUE, w |-> w, decimals |-> decimals, name |-> name, adj |-> adj]

(***************************************************************************)
(* String helpers.                                                         *)
(***************************************************************************)
\* String.prototype.toLowerCase on the words the model uses.
toLowerCase(w) ==
    CASE w = "T" -> "t" [] w = "U" -> "u" [] w = "X" -> "x" [] w = "Y" -> "y"
      [] w = "A" -> "a" [] w = "B" -> "b" [] w = "M" -> "m" [] w = "N" -> "n"
      [] w = "Water" -> "water" [] w = "Ice" -> "ice" [] w = "CO2" -> "co2"
      [] w = "Big" -> "big" [] w = "Cat" -> "cat"
      [] w = "Cash" -> "cash" [] w = "Office" -> "office" [] w = "Buy" -> "buy"
      [] OTHER -> w

\* .replace(/[^a-z0-9\s-]/g, '') on a lower-case word: "_" and other
\* punctuation are dropped.
stripNonAlnum(w) ==
    CASE w = "prior_state" -> "priorstate" [] w = "post_state" -> "poststate"
      [] w = "is_a" -> "isa"
      [] OTHER -> w

\* name.trim().toLowerCase().replace(/[^a-z0-9\s-]/g,'').replace(/\s+/g,'_')
cleanName(name) == [i \in DOMAIN name |-> stripNonAlnum(toLowerCase(name[i]))]

\* name.trim().toLowerCase().replace(/\s+/g, '_')  (relation, attribute and
\* morph names inside ids keep their punctuation)
lowerJoin(name) == [i \in DOMAIN name |-> toLowerCase(name[i])]

\* fnv1aHash: FNV-1a, 32 bit, first six hex digits, on the values the model uses.
fnv1aHash(v) ==
    CASE v = "0" -> "350ca8" [] v = "100" -> "6733d4" [] v = "1000" -> "2297ca"
      [] v = "liquid" -> "5e4daa" [] v = "solid" -> "b1407a"

HasPriorState == <<"has", "prior_state">>
HasPostState == <<"has", "post_state">>

\* The property names every object literal inherits from Object.prototype.
ObjectPrototypeKeys ==
    {"constructor", "toString", "toLocaleString", "valueOf", "hasOwnProperty",
     "isPrototypeOf", "propertyIsEnumerable", "__proto__"}

\* What ACCOUNTING_RELATION_MAP[key] is for an inherited key: a function (or
\* the prototype object), not a string.
InheritedProperty(key) == <<"Object.prototype", key>>

\* trimmedRelName in ACCOUNTING_RELATION_MAP: the `in` operator also finds
\* the inherited properties of the object literal.
IsAccountingRelation(relName) ==
    \/ relName \in {<<"debit">>, <<"credit">>}
    \/ Len(relName) = 1 /\ relName[1] \in ObjectPrototypeKeys

\* ACCOUNTING_RELATION_MAP[trimmedRelName] ?? trimmedRelName
ACCOUNTING_RELATION_MAP(relName) ==
    CASE relName = <<"debit">> -> HasPostState
      [] relName = <<"credit">> -> HasPriorState
      [] Len(relName) = 1 /\ relName[1] \in ObjectPrototypeKeys -> InheritedProperty(relName[1])
      [] OTHER -> relName

(***************************************************************************)
(* Operations (CnlOperation).  One record shape for every kind; a field a  *)
(* kind does not carry is Null, or <<>> where the field holds a name or an *)
(* id (an absent weight is 0 with hasWeight FALSE).  role is payload.role, *)
(* optRole is payload.options.role, origin is the operation's source tag.  *)
(***************************************************************************)
NoMorph ==
    [morph_id |-> <<>>, node_id |-> <<>>, name |-> <<>>,
     relationNode_ids |-> <<>>, attributeNode_ids |-> <<>>]

BlankOp ==
    [type |-> Null, id |-> <<>>, base_name |-> <<>>, role |-> Null, optRole |-> Null,
     adjective |-> <<>>, source |-> <<>>, target |-> <<>>, name |-> <<>>,
     hasWeight |-> FALSE, weight |-> 0, morphId |-> <<>>, morph |-> NoMorph,
     value |-> Null, unit |-> Null, origin |-> Null]

AddNodeOp(id, baseName, role, optRole, adjective, origin) ==
    [BlankOp EXCEPT !.type = "addNode", !.id = id, !.base_name = baseName, !.role = role,
                    !.optRole = optRole, !.adjective = adjective, !.origin = origin]

AddMorphOp(id, nodeId, morph) ==
    [BlankOp EXCEPT !.type = "addMorph", !.id = id, !.source = nodeId, !.morph = morph]

AddRelationOp(id, source, target, name, hasWeight, weight, morphId, origin) ==
    [BlankOp EXCEPT !.type = "addRelation", !.id = id, !.source = source, !.target = target,
                    !.name = name, !.hasWeight = hasWeight, !.weight = weight,
                    !.morphId = morphId, !.origin = origin]

AddAttributeOp(id, source, name, value, unit, morphId) ==
    [BlankOp EXCEPT !.type = "addAttribute", !.id = id, !.source = source, !.name = name,
                    !.value = value, !.unit = unit, !.morphId = morphId]

ApplyFunctionOp(id, source, name) ==
    [BlankOp EXCEPT !.type = "applyFunction", !.id = id, !.source = source, !.name = name]

(***************************************************************************)
(* cnl-parser.ts                                                           *)
(***************************************************************************)
\* generateMorphId: the id made of the already incremented counter.
generateMorphId(nodeId, morphName, counter) ==
    nodeId \o <<"morph">> \o lowerJoin(morphName) \o <<ToString(counter)>>

\* resetMorphCounter: the value the module-level counter is set to.
resetMorphCounter_Keep(counter) == counter

resetMorphCounter(counter) == 0

\* parseAllBlocks: alternating mindmap and plain-CNL blocks.
RECURSIVE parseAllBlocks(_, _, _)
parseAllBlocks(lines, i, blocks) ==
    IF i > Len(lines) THEN blocks
    ELSE LET n == Len(blocks)
             line == lines[i]
         IN IF line.k = "mmhead"
            THEN parseAllBlocks(lines, i + 1, Append(blocks, [type |-> "mindmap", lines |-> <<line>>]))
            ELSE IF n > 0 /\ blocks[n].type = "mindmap" /\ line.k = "mmitem"
            THEN parseAllBlocks(lines, i + 1, [blocks EXCEPT ![n].lines = Append(@, line)])
            ELSE IF n > 0 /\ blocks[n].type = "cnl"
            THEN parseAllBlocks(lines, i + 1, [blocks EXCEPT ![n].lines = Append(@, line)])
            ELSE parseAllBlocks(lines, i + 1, Append(blocks, [type |-> "cnl", lines |-> <<line>>]))

\* Variant of the pop loop that keeps an entry of the item's own indent.
RECURSIVE PopStack_KeepsEqual(_, _)
PopStack_KeepsEqual(stack, indent) ==
    IF Len(stack) > 1 /\ stack[Len(stack)].indent > indent
    THEN PopStack_KeepsEqual(SubSeq(stack, 1, Len(stack) - 1), indent)
    ELSE stack

\* The stack of parseMindmapBlock after popping every entry whose indent is
\* not strictly smaller than the item's (the root entry is never popped).
RECURSIVE PopStack(_, _)
PopStack(stack, indent) ==
    IF Len(stack) > 1 /\ stack[Len(stack)].indent >= indent
    THEN PopStack(SubSeq(stack, 1, Len(stack) - 1), indent)
    ELSE stack

RECURSIVE MindmapItems(_, _, _, _, _)
MindmapItems(lines, i, relationLabel, stack, ops) ==
    IF i > Len(lines) THEN ops
    ELSE LET line == lines[i]
             itemId == cleanName(line.name)
             popped == PopStack(stack, line.indent)
             parentId == popped[Len(popped)].id
             relId == <<"rel">> \o parentId \o cleanName(relationLabel) \o itemId
         IN MindmapItems(lines, i + 1, relationLabel,
                Append(popped, [id |-> itemId, indent |-> line.indent]),
                ops \o << AddNodeOp(itemId, line.name, "class", Null, <<>>, "mindmap"),
                          AddRelationOp(relId, parentId, itemId, relationLabel,
                                        FALSE, 0, <<>>, "mindmap") >>)

\* parseMindmapBlock
parseMindmapBlock(lines) ==
    LET rootId == cleanName(lines[1].name)
    IN MindmapItems(lines, 2, lines[1].rel, << [id |-> rootId, indent |-> -1] >>,
                    << AddNodeOp(rootId, lines[1].name, Null, "individual", <<>>, "mindmap") >>)

\* buildStructuralTree: "#" opens a node block, "##" a morph of the current
\* node block, any other line is content of the last morph or of the node;
\* lines before the first "#" heading are dropped.
RECURSIVE buildStructuralTree(_, _, _)
buildStructuralTree(lines, i, tree) ==
    IF i > Len(lines) THEN tree
    ELSE LET n == Len(tree)
             line == lines[i]
         IN IF line.k = "morph" /\ n > 0
            THEN buildStructuralTree(lines, i + 1,
                    [tree EXCEPT ![n].morphs = Append(@, [name |-> line.name, content |-> <<>>])])
            ELSE IF line.k = "node"
            THEN buildStructuralTree(lines, i + 1,
                    Append(tree, [heading |-> line, content |-> <<>>, morphs |-> <<>>]))
            ELSE IF n > 0
            THEN IF Len(tree[n].morphs) > 0
                 THEN buildStructuralTree(lines, i + 1,
                        [tree EXCEPT ![n].morphs[Len(tree[n].morphs)].content = Append(@, line)])
                 ELSE buildStructuralTree(lines, i + 1,
                        [tree EXCEPT ![n].content = Append(@, line)])
            ELSE buildStructuralTree(lines, i + 1, tree)

\* The id a heading or a relation target gets: the cleaned adjective, if any,
\* joined to the cleaned base name.
NodeIdOf(adj, baseName) ==
    IF adj # <<>> THEN cleanName(adj) \o cleanName(baseName) ELSE cleanName(baseName)

\* processNodeHeading: the addNode operation of a "#" heading.
processNodeHeading(heading) ==
    AddNodeOp(NodeIdOf(heading.adj, heading.name), heading.name, Null,
              IF heading.type # Null THEN heading.type ELSE "individual",
              heading.adj, Null)

\* The attribute lines of a neighborhood, in line order.
RECURSIVE AttributeOps(_, _, _)
AttributeOps(nodeId, morphId, lines) ==
    IF lines = <<>> THEN <<>>
    ELSE LET line == Head(lines)
             attrId == <<"attr">> \o nodeId \o lowerJoin(line.name) \o <<fnv1aHash(line.value)>>
         IN (IF line.k = "attr"
             THEN << AddAttributeOp(attrId, nodeId, line.name, line.value, line.unit, morphId) >>
             ELSE <<>>) \o AttributeOps(nodeId, morphId, Tail(lines))

\* The function lines of a neighborhood (never tagged with a morph id).
RECURSIVE FunctionOps(_, _)
FunctionOps(nodeId, lines) ==
    IF lines = <<>> THEN <<>>
    ELSE LET line == Head(lines)
             funcId == <<"func">> \o nodeId \o lowerJoin(line.name)
         IN (IF line.k = "func" THEN << ApplyFunctionOp(funcId, nodeId, line.name) >> ELSE <<>>)
            \o FunctionOps(nodeId, Tail(lines))

\* rawTarget.match(/^(\d+(?:\.\d{1,2})?)\s+(.+)$/): a numeric token with at
\* most two digits after the point.
WeightMatches(t) == t.hasW /\ t.decimals <= 2

RECURSIVE Zeros(_)
Zeros(n) == IF n = 0 THEN "" ELSE "0" \o Zeros(n - 1)

\* The numeric token as written, and as toLowerCase().replace(/[^a-z0-9\s-]/g, '')
\* leaves it.
NumeralWord(w, decimals) ==
    IF decimals = 0 THEN ToString(w) ELSE ToString(w) \o "." \o Zeros(decimals)

CleanNumeral(w, decimals) == ToString(w) \o Zeros(decimals)

\* The targets of one relation line: per target an implicit addNode and an
\* addRelation carrying the parsed weight.
RECURSIVE TargetOps(_, _, _, _)
TargetOps(nodeId, morphId, relName, targets) ==
    IF targets = <<>> THEN <<>>
    ELSE LET t == Head(targets)
             weightMatch == WeightMatches(t)
             weight == IF weightMatch THEN t.w ELSE 1
             \* an unmatched numeric token stays in the target text; the
             \* adjective match, when there is one, drops what precedes it
             keepsToken == t.hasW /\ ~weightMatch /\ t.adj = <<>>
             baseName == IF keepsToken THEN <<NumeralWord(t.w, t.decimals)>> \o t.name
                         ELSE t.name
             targetId == IF keepsToken THEN <<CleanNumeral(t.w, t.decimals)>> \o cleanName(t.name)
                         ELSE NodeIdOf(t.adj, t.name)
             relId == <<"rel">> \o nodeId \o lowerJoin(relName) \o targetId
         IN << AddNodeOp(targetId, baseName,
                         IF IsAccountingRelation(relName) THEN "Account" ELSE "class",
                         Null, t.adj, Null),
               AddRelationOp(relId, nodeId, targetId, ACCOUNTING_RELATION_MAP(relName),
                             TRUE, weight, morphId, Null) >>
            \o TargetOps(nodeId, morphId, relName, Tail(targets))

\* RELATION_REGEX on one relation line: group 2 is [^;\n]*? closed by the
\* first ";" (or the line's end), and the next match can only start at the
\* start of a line: what the split(';') receives is the first target alone.
RELATION_REGEX(line) ==
    IF line.targets = <<>> THEN <<>> ELSE << Head(line.targets) >>

RECURSIVE RelationOps(_, _, _)
RelationOps(nodeId, morphId, lines) ==
    IF lines = <<>> THEN <<>>
    ELSE LET line == Head(lines)
         IN (IF line.k = "rel"
             THEN TargetOps(nodeId, morphId, line.name, RELATION_REGEX(line)) ELSE <<>>)
            \o RelationOps(nodeId, morphId, Tail(lines))

\* processNeighborhood: attributes, then functions, then relations.
processNeighborhood(nodeId, lines) ==
    AttributeOps(nodeId, <<>>, lines) \o FunctionOps(nodeId, lines) \o RelationOps(nodeId, <<>>, lines)

\* processMorphNeighborhood: the same, attributes and relations tagged with morphId.
processMorphNeighborhood(nodeId, morphId, lines) ==
    AttributeOps(nodeId, morphId, lines) \o FunctionOps(nodeId, lines)
        \o RelationOps(nodeId, morphId, lines)

\* The morphs of one node block; acc is [ops, counter].
RECURSIVE MorphBlockOps(_, _, _, _)
MorphBlockOps(nodeId, morphs, i, acc) ==
    IF i > Len(morphs) THEN acc
    ELSE LET counter == acc.counter + 1
             morphId == generateMorphId(nodeId, morphs[i].name, counter)
             morph == [morph_id |-> morphId, node_id |-> nodeId, name |-> morphs[i].name,
                       relationNode_ids |-> <<>>, attributeNode_ids |-> <<>>]
         IN MorphBlockOps(nodeId, morphs, i + 1,
                [ops |-> acc.ops \o << AddMorphOp(nodeId \o <<"morph">> \o morphs[i].name, nodeId, morph) >>
                                 \o processMorphNeighborhood(nodeId, morphId, morphs[i].content),
                 counter |-> counter])

\* The node blocks of one plain-CNL block.
RECURSIVE NodeBlockOps(_, _, _)
NodeBlockOps(tree, i, acc) ==
    IF i > Len(tree) THEN acc
    ELSE LET nodeOp == processNodeHeading(tree[i].heading)
         IN NodeBlockOps(tree, i + 1,
                MorphBlockOps(nodeOp.id, tree[i].morphs, 1,
                    [ops |-> acc.ops \o <<nodeOp>> \o processNeighborhood(nodeOp.id, tree[i].content),
                     counter |-> acc.counter]))

RECURSIVE BlockOps(_, _, _)
BlockOps(blocks, i, acc) ==
    IF i > Len(blocks) THEN acc
    ELSE IF blocks[i].type = "mindmap"
         THEN BlockOps(blocks, i + 1,
                [ops |-> acc.ops \o parseMindmapBlock(blocks[i].lines), counter |-> acc.counter])
         ELSE BlockOps(blocks, i + 1,
                NodeBlockOps(buildStructuralTree(blocks[i].lines, 1, <<>>), 1, acc))

\* getOperationsFromCnl, called with the module-level morphCounter at
\* `counter`: [ops, counter], the operations returned and the counter left
\* behind.  An empty text returns before the counter is reset.
getOperationsFromCnl(cnlText, counter) ==
    IF cnlText = <<>> THEN [ops |-> <<>>, counter |-> counter]
    ELSE BlockOps(parseAllBlocks(cnlText, 1, <<>>), 1,
                  [ops |-> <<>>, counter |-> resetMorphCounter(counter)])

(***************************************************************************)
(* morph-registry.ts: operationsToGraph                                    *)
(***************************************************************************)
\* Index of the first element of seq whose field id is `id` (Map.get, find), or 0.
RECURSIVE IndexOfId(_, _, _)
IndexOfId(seq, id, i) ==
    IF i > Len(seq) THEN 0
    ELSE IF seq[i].id = id THEN i ELSE IndexOfId(seq, id, i + 1)

\* Index of the first morph of `morphs` whose morph_id is `morphId`, or 0.
RECURSIVE IndexOfMorph(_, _, _)
IndexOfMorph(morphs, morphId, i) ==
    IF i > Len(morphs) THEN 0
    ELSE IF morphs[i].morph_id = morphId THEN i ELSE IndexOfMorph(morphs, morphId, i + 1)

\* createBasicMorph: the morph made with the already incremented counter.
createBasicMorph(nodeId, counter) ==
    [morph_id |-> nodeId \o <<"morph", "basic", ToString(counter)>>, node_id |-> nodeId,
     name |-> <<"basic">>, relationNode_ids |-> <<>>, attributeNode_ids |-> <<>>]

\* The value operationsToGraph gives basicMorphCounter on entry.
resetBasicMorphCounter(counter) == 0

\* The role pass 1 gives a node: options.role ?? payload.role ?? 'individual'.
RoleOfAddNode(op) ==
    IF op.optRole # Null THEN op.optRole
    ELSE IF op.role # Null THEN op.role ELSE "individual"

\* Variant of pass 1 in which a later addNode of a known id overwrites the
\* role and the adjective of the node.
Pass1Step_LastWins(acc, op) ==
    IF op.type = "addNode"
    THEN IF IndexOfId(acc.nodes, op.id, 1) = 0
         THEN LET counter == acc.counter + 1
                  basicMorph == createBasicMorph(op.id, counter)
              IN [nodes |-> Append(acc.nodes,
                             [id |-> op.id, base_name |-> op.base_name,
                              adjective |-> op.adjective, role |-> RoleOfAddNode(op),
                              morphs |-> <<basicMorph>>, nbh |-> basicMorph.morph_id]),
                  counter |-> counter]
         ELSE [acc EXCEPT !.nodes[IndexOfId(acc.nodes, op.id, 1)].role = RoleOfAddNode(op),
                          !.nodes[IndexOfId(acc.nodes, op.id, 1)].adjective = op.adjective]
    ELSE acc

\* PASS 1: a node, with a fresh basic morph, for the first addNode of each id.
\* acc is [nodes, counter]; nodes keeps the insertion order of nodesMap.
Pass1Step(acc, op) ==
    IF op.type = "addNode" /\ IndexOfId(acc.nodes, op.id, 1) = 0
    THEN LET counter == acc.counter + 1
             basicMorph == createBasicMorph(op.id, counter)
         IN [nodes |-> Append(acc.nodes,
                        [id |-> op.id, base_name |-> op.base_name, adjective |-> op.adjective,
                         role |-> RoleOfAddNode(op), morphs |-> <<basicMorph>>,
                         nbh |-> basicMorph.morph_id]),
             counter |-> counter]
    ELSE acc

RECURSIVE Pass1(_, _, _)
Pass1(operations, i, acc) ==
    IF i > Len(operations) THEN acc
    ELSE Pass1(operations, i + 1, Pass1Step(acc, operations[i]))

\* Variant of pass 2 that puts a declared morph in front of the node's morphs.
Pass2Step_Prepend(nodes, op) ==
    IF op.type = "addMorph"
    THEN LET n == IndexOfId(nodes, op.source, 1)
         IN IF n = 0 THEN nodes ELSE [nodes EXCEPT ![n].morphs = <<op.morph>> \o @]
    ELSE nodes

\* PASS 2: every addMorph is appended to its node's morph list, if the node exists.
Pass2Step(nodes, op) ==
    IF op.type = "addMorph"
    THEN LET n == IndexOfId(nodes, op.source, 1)
         IN IF n = 0 THEN nodes ELSE [nodes EXCEPT ![n].morphs = Append(@, op.morph)]
    ELSE nodes

RECURSIVE Pass2(_, _, _)
Pass2(operations, i, nodes) ==
    IF i > Len(operations) THEN nodes
    ELSE Pass2(operations, i + 1, Pass2Step(nodes, operations[i]))

\* Linking that ignores the operation's morph id: always the first morph.
LinkMorphIndex_AlwaysBasic(nodes, n, morphId) ==
    IF n = 0 THEN 0 ELSE 1

\* The morph of node n (an index) that pass 3 links an item to: the morph
\* named by morphId when one is given (0 when the node has none with that
\* id), else the first, basic, morph.  0 when there is no source node.
LinkMorphIndex(nodes, n, morphId) ==
    IF n = 0 THEN 0
    ELSE IF morphId # <<>> THEN IndexOfMorph(nodes[n].morphs, morphId, 1)
    ELSE 1

\* PASS 3 on one operation; g is [nodes, edges, attributes].
Pass3Step(g, op) ==
    LET n == IndexOfId(g.nodes, op.source, 1)
    IN IF op.type = "addRelation"
       THEN LET m == LinkMorphIndex(g.nodes, n, op.morphId)
                edge == [id |-> op.id, source_id |-> op.source, target_id |-> op.target,
                         name |-> op.name, weight |-> IF op.hasWeight THEN op.weight ELSE 1,
                         morph_ids |-> IF m = 0 THEN <<>>
                                       ELSE << g.nodes[n].morphs[m].morph_id >>]
            IN [g EXCEPT !.nodes = IF m = 0 THEN @
                                   ELSE [@ EXCEPT ![n].morphs[m].relationNode_ids = Append(@, op.id)],
                         !.edges = Append(@, edge)]
       ELSE IF op.type = "addAttribute"
       THEN LET m == LinkMorphIndex(g.nodes, n, op.morphId)
                attr == [id |-> op.id, source_id |-> op.source, name |-> op.name,
                         value |-> op.value, unit |-> op.unit,
                         morph_ids |-> IF m = 0 THEN <<>>
                                       ELSE << g.nodes[n].morphs[m].morph_id >>]
            IN [g EXCEPT !.nodes = IF m = 0 THEN @
                                   ELSE [@ EXCEPT ![n].morphs[m].attributeNode_ids = Append(@, op.id)],
                         !.attributes = Append(@, attr)]
       ELSE IF op.type = "applyFunction"
       THEN LET attr == [id |-> op.id, source_id |-> op.source, name |-> op.name,
                         value |-> "function", unit |-> Null,
                         morph_ids |-> IF n = 0 THEN <<>> ELSE << g.nodes[n].morphs[1].morph_id >>]
            IN [g EXCEPT !.nodes = IF n = 0 THEN @
                                   ELSE [@ EXCEPT ![n].morphs[1].attributeNode_ids = Append(@, op.id)],
                         !.attributes = Append(@, attr)]
       ELSE g

RECURSIVE Pass3(_, _, _)
Pass3(operations, i, g) ==
    IF i > Len(operations) THEN g
    ELSE Pass3(operations, i + 1, Pass3Step(g, operations[i]))

\* operationsToGraph, called with the module-level basicMorphCounter at
\* `counter`: [graph, counter], the CnlGraphData returned and the counter
\* left behind.
operationsToGraph(operations, counter) ==
    LET p1 == Pass1(operations, 1, [nodes |-> <<>>, counter |-> resetBasicMorphCounter(counter)])
        p2 == Pass2(operations, 1, p1.nodes)
    IN [graph |-> Pass3(operations, 1, [nodes |-> p2, edges |-> <<>>, attributes |-> <<>>]),
        counter |-> p1.counter]

EmptyGraph == [nodes |-> <<>>, edges |-> <<>>, attributes |-> <<>>]

(***************************************************************************)
(* nodebook-graph.tsx: the NodeBookGraph component                         *)
(***************************************************************************)
VARIABLES
    code,               \* the component's prop: the CNL text
    morphCounter,       \* cnl-parser.ts, module level
    basicMorphCounter,  \* morph-registry.ts, module level
    operations,         \* useMemo: getOperationsFromCnl(code)
    graphData,          \* useMemo: operationsToGraph(operations)
    marking,            \* useState: Map<string, number>
    initialTokens,      \* useState: number
    inMemoryGraph,      \* useState: the morph-filtered graph on display
    ledgerText,         \* LedgerView's prop: the ledger text
    ledger,             \* LedgerView's useMemo: parseLedger(code), computeLedger(data)
    pendingFires,       \* React's queue of setMarking updaters not yet applied
    schemaStore,        \* schema-store.ts, module level: currentUserSchemas, storeVersion
    validation,         \* useState: validationWarnings, hasValidated
    registry,           \* a MorphRegistry instance: its four maps
    last                \* history: the last handler run, with the marking it found

vars == <<code, morphCounter, basicMorphCounter, operations, graphData, marking,
          initialTokens, inMemoryGraph, ledgerText, ledger, pendingFires, schemaStore,
          validation, registry, last>>

\* The kinds of type a schema declares.
SchemaKinds == {"nodeTypes", "relationTypes", "attributeTypes", "transitionTypes", "functionTypes"}

\* currentUserSchemas = null: a record of the same shape as a
\* ParsedUserSchemas, told apart by isNull.
NullSchemas == [k \in SchemaKinds \cup {"isNull"} |-> IF k = "isNull" THEN TRUE ELSE <<>>]

\* schema-store.ts as loaded: let currentUserSchemas = null, storeVersion = 0
NoUserSchemas == [currentUserSchemas |-> NullSchemas, storeVersion |-> 0]

\* useState([]) and useState(false)
NoValidation == [validationWarnings |-> <<>>, hasValidated |-> FALSE]

\* new MorphRegistry(): four empty maps, each a sequence of [key, value]
\* entries in insertion order.
NewMorphRegistry ==
    [morphs |-> <<>>, nodeMorphs |-> <<>>, relationMorphs |-> <<>>, attributeMorphs |-> <<>>]

\* LedgerView on the empty text.
NoLedger ==
    [data |-> [accounts |-> <<>>, transactions |-> <<>>, directives |-> <<>>, errors |-> <<>>],
     computed |-> [rows |-> <<>>, accountBalances |-> <<>>, categorySummaries |-> <<>>]]

\* Map.get(k) ?? 0 and Map.set(k, v) on a marking.
MapGet(m, k) == IF k \in DOMAIN m THEN m[k] ELSE 0

MapSet(m, k, v) == [x \in DOMAIN m \cup {k} |-> IF x = k THEN v ELSE m[x]]

EmptyMap == [x \in {} |-> 0]

\* const { graphData, operations } = useMemo(...): one parse of `text` with
\* the module-level counters at mc and bmc.
ParseCode(text, mc, bmc) ==
    LET parsed == getOperationsFromCnl(text, mc)
        built == operationsToGraph(parsed.ops, bmc)
    IN [operations |-> parsed.ops, graphData |-> built.graph,
        morphCounter |-> parsed.counter, basicMorphCounter |-> built.counter]

\* graphMode
graphMode(graph, ops) ==
    IF \E i \in DOMAIN graph.nodes : graph.nodes[i].role = "Transition" THEN "petri-net"
    ELSE IF Len(ops) > 0 /\ \A i \in DOMAIN ops : ops[i].origin = "mindmap" THEN "mindmap"
    ELSE "concept-map"

\* priorStateNodeIds, postStateNodeIds
priorStateNodeIds(graph, mode) ==
    IF mode = "petri-net"
    THEN {graph.edges[i].target_id : i \in {j \in DOMAIN graph.edges : graph.edges[j].name = HasPriorState}}
    ELSE {}

postStateNodeIds(graph, mode) ==
    IF mode = "petri-net"
    THEN {graph.edges[i].target_id : i \in {j \in DOMAIN graph.edges : graph.edges[j].name = HasPostState}}
    ELSE {}

\* BuildInitialMarking without the `!priorStateNodeIds.has(nodeId)` test: a
\* post-state place is set to 0 even when it is a prior-state place too.
BuildInitialMarking_PostOverwrites(prior, post, tokens) ==
    [p \in prior \cup post |-> IF p \in post THEN 0 ELSE tokens]

\* The marking both the initialisation effect and resetMarking build: tokens
\* on every prior-state place, then 0 on every post-state place not yet set.
BuildInitialMarking(prior, post, tokens) ==
    LET afterPrior == [p \in prior |-> tokens]
    IN [p \in DOMAIN afterPrior \cup {q \in post : q \notin prior} |->
            IF p \in DOMAIN afterPrior THEN afterPrior[p] ELSE 0]

\* useEffect(..., [graphData, graphMode, priorStateNodeIds, postStateNodeIds, initialTokens])
markingEffect(graph, ops, tokens) ==
    LET mode == graphMode(graph, ops)
    IN IF mode # "petri-net" THEN EmptyMap
       ELSE BuildInitialMarking(priorStateNodeIds(graph, mode), postStateNodeIds(graph, mode), tokens)

\* resetMarking: the marking it sets.
resetMarking(graph, ops, tokens) ==
    LET mode == graphMode(graph, ops)
    IN BuildInitialMarking(priorStateNodeIds(graph, mode), postStateNodeIds(graph, mode), tokens)

\* graphData.edges.filter(e => e.source_id === transitionId && e.name === name)
\*          .map(e => e.target_id)
ArcTargets(graph, transitionId, name) ==
    LET sel == SelectSeq(graph.edges, LAMBDA e : e.source_id = transitionId /\ e.name = name)
    IN [i \in DOMAIN sel |-> sel[i].target_id]

\* isTransitionEnabled without its `inputPlaces.length > 0` test.
isTransitionEnabled_VacuouslyTrue(graph, transitionId, currentMarking) ==
    LET inputPlaces == ArcTargets(graph, transitionId, HasPriorState)
    IN \A i \in DOMAIN inputPlaces : MapGet(currentMarking, inputPlaces[i]) >= 1

\* isTransitionEnabled
isTransitionEnabled(graph, transitionId, currentMarking) ==
    LET inputPlaces == ArcTargets(graph, transitionId, HasPriorState)
    IN Len(inputPlaces) > 0
       /\ \A i \in DOMAIN inputPlaces : MapGet(currentMarking, inputPlaces[i]) >= 1

\* for (const placeId of places) next.set(placeId, (next.get(placeId) ?? 0) + delta)
RECURSIVE AddToPlaces(_, _, _, _)
AddToPlaces(next, places, i, delta) ==
    IF i > Len(places) THEN next
    ELSE AddToPlaces(MapSet(next, places[i], MapGet(next, places[i]) + delta), places, i + 1, delta)

\* fireTransition without its `if (!isTransitionEnabled(...)) return prev`.
fireTransition_Unguarded(graph, transitionId, prev) ==
    AddToPlaces(AddToPlaces(prev, ArcTargets(graph, transitionId, HasPriorState), 1, -1),
                ArcTargets(graph, transitionId, HasPostState), 1, 1)

\* fireTransition: the updater given to setMarking, applied to prev.
fireTransition(graph, transitionId, prev) ==
    IF ~isTransitionEnabled(graph, transitionId, prev) THEN prev
    ELSE AddToPlaces(AddToPlaces(prev, ArcTargets(graph, transitionId, HasPriorState), 1, -1),
                     ArcTargets(graph, transitionId, HasPostState), 1, 1)

\* hasEnabledTransition without the `n.role === 'Transition'` test.
hasEnabledTransition_AnyRole(graph, ops, currentMarking) ==
    IF graphMode(graph, ops) # "petri-net" THEN TRUE
    ELSE \E i \in DOMAIN graph.nodes :
            isTransitionEnabled(graph, graph.nodes[i].id, currentMarking)

\* hasEnabledTransition with `every` in place of `some`.
hasEnabledTransition_Every(graph, ops, currentMarking) ==
    IF graphMode(graph, ops) # "petri-net" THEN TRUE
    ELSE \A i \in DOMAIN graph.nodes :
            /\ graph.nodes[i].role = "Transition"
            /\ isTransitionEnabled(graph, graph.nodes[i].id, currentMarking)

\* hasEnabledTransition
hasEnabledTransition(graph, ops, currentMarking) ==
    IF graphMode(graph, ops) # "petri-net" THEN TRUE
    ELSE \E i \in DOMAIN graph.nodes :
            /\ graph.nodes[i].role = "Transition"
            /\ isTransitionEnabled(graph, graph.nodes[i].id, currentMarking)

\* The condition under which the deadlock banner is rendered.
deadlockBanner(graph, ops, currentMarking) ==
    /\ graphMode(graph, ops) = "petri-net"
    /\ ~hasEnabledTransition(graph, ops, currentMarking)
    /\ Cardinality(DOMAIN currentMarking) > 0

\* The nodes a tap or the "Fire Transition" button can fire.
TransitionIds(graph) ==
    {graph.nodes[i].id : i \in {j \in DOMAIN graph.nodes : graph.nodes[j].role = "Transition"}}

\* The edges and attributes on display: for every node, in node order, the
\* items its active morph lists, each looked up by id (Array.find: the first
\* edge or attribute of the graph with that id).
RECURSIVE LookupAll(_, _, _)
LookupAll(ids, items, i) ==
    IF i > Len(ids) THEN <<>>
    ELSE LET n == IndexOfId(items, ids[i], 1)
         IN (IF n = 0 THEN <<>> ELSE << items[n] >>) \o LookupAll(ids, items, i + 1)

RECURSIVE FilterActive(_, _, _, _)
FilterActive(nodes, graph, i, acc) ==
    IF i > Len(nodes) THEN acc
    ELSE LET m == IndexOfMorph(nodes[i].morphs, nodes[i].nbh, 1)
         IN IF m = 0 THEN FilterActive(nodes, graph, i + 1, acc)
            ELSE FilterActive(nodes, graph, i + 1,
                    [edges |-> acc.edges
                        \o LookupAll(nodes[i].morphs[m].relationNode_ids, graph.edges, 1),
                     attributes |-> acc.attributes
                        \o LookupAll(nodes[i].morphs[m].attributeNode_ids, graph.attributes, 1)])

\* useEffect(..., [graphData]): the in-memory graph a new graphData starts with.
inMemoryGraphEffect(graph) ==
    LET f == FilterActive(graph.nodes, graph, 1, [edges |-> <<>>, attributes |-> <<>>])
    IN [nodes |-> graph.nodes, edges |-> f.edges, attributes |-> f.attributes]

\* handleMorphChange: the in-memory graph it sets.
handleMorphChange(current, graph, nodeId, morphId) ==
    LET updatedNodes == [i \in DOMAIN current.nodes |->
                            IF current.nodes[i].id = nodeId
                            THEN [current.nodes[i] EXCEPT !.nbh = morphId]
                            ELSE current.nodes[i]]
        f == FilterActive(updatedNodes, graph, 1, [edges |-> <<>>, attributes |-> <<>>])
    IN [nodes |-> updatedNodes, edges |-> f.edges, attributes |-> f.attributes]

(***************************************************************************)
(* Bounds and inputs.                                                      *)
(***************************************************************************)
\* All sequences over S of length at most n.
SeqsUpTo(S, n) == UNION {[1..k -> S] : k \in 0..n}

MaxArcs == 2            \* arc lines in a Petri-net text
MaxInitialTokens == 2   \* largest value typed into the token input
MaxTokens == 3          \* firings that would put more tokens on a place are not explored

PlaceNames == {<<"X">>, <<"Y">>}

\* The arc weights written in the texts (an arc without a weight has weight 1).
WrittenWeights == {2}

\* "<has prior_state> Target;", "<has post_state> 2 Target;", ...
ArcLines ==
    {RelLine(name, << Target(FALSE, 0, p, <<>>) >>) : name \in {HasPriorState, HasPostState}, p \in PlaceNames}
    \cup {RelLine(name, << Target(TRUE, w, p, <<>>) >>) :
            name \in {HasPriorState, HasPostState}, p \in PlaceNames, w \in WrittenWeights}

\* "# T [Transition]" with its arcs, then "# U [Transition]" or "# U" with
\* its arcs: at most MaxArcs arc lines in all.
PetriTexts ==
    {<< NodeLine(<<"T">>, "Transition", <<>>) >> \o SubSeq(arcs, 1, k)
        \o << NodeLine(<<"U">>, r, <<>>) >> \o SubSeq(arcs, k + 1, Len(arcs)) :
        <<arcs, k, r>> \in {x \in SeqsUpTo(ArcLines, MaxArcs) \X (0..MaxArcs) \X {"Transition", Null} :
                              x[2] <= Len(x[1])}}

\* last: op names the handler (or "init"), t its node, `before` the marking it
\* found, `enabled` what the enabling test said of t then, mc and bmc the
\* module-level counters it found.
NoLast == [op |-> "init", t |-> <<>>, before |-> EmptyMap, enabled |-> FALSE, mc |-> 0, bmc |-> 0]

\* The component mounted on `text`: the first render parses it, the effects
\* initialise the marking and the in-memory graph.
Mount(text) ==
    LET parsed == ParseCode(text, 0, 0)
    IN /\ code = text
       /\ morphCounter = parsed.morphCounter
       /\ basicMorphCounter = parsed.basicMorphCounter
       /\ operations = parsed.operations
       /\ graphData = parsed.graphData
       /\ initialTokens = 1
       /\ marking = markingEffect(parsed.graphData, parsed.operations, 1)
       /\ inMemoryGraph = inMemoryGraphEffect(parsed.graphData)
       /\ ledgerText = <<>>
       /\ ledger = NoLedger
       /\ pendingFires = <<>>
       /\ schemaStore = NoUserSchemas
       /\ validation = NoValidation
       /\ registry = NewMorphRegistry
       /\ last = NoLast

(***************************************************************************)
(* The Petri-net engine.                                                   *)
(***************************************************************************)
InitPetri ==
    \E text \in PetriTexts : Mount(text)

\* A tap on a transition node or the "Fire Transition" button: fireTransition(t).
Fire(t) ==
    /\ marking' = fireTransition(graphData, t, marking)
    /\ \A p \in DOMAIN marking' : marking'[p] <= MaxTokens
    /\ last' = [op |-> "fire", t |-> t, before |-> marking,
                enabled |-> isTransitionEnabled(graphData, t, marking),
                mc |-> morphCounter, bmc |-> basicMorphCounter]
    /\ UNCHANGED <<code, morphCounter, basicMorphCounter, operations, graphData,
                   initialTokens, inMemoryGraph, ledgerText, ledger, pendingFires, schemaStore, validation, registry>>

\* The "Reset" button: resetMarking().
Reset ==
    /\ marking' = resetMarking(graphData, operations, initialTokens)
    /\ last' = [op |-> "reset", t |-> <<>>, before |-> marking, enabled |-> FALSE,
                mc |-> morphCounter, bmc |-> basicMorphCounter]
    /\ UNCHANGED <<code, morphCounter, basicMorphCounter, operations, graphData,
                   initialTokens, inMemoryGraph, ledgerText, ledger, pendingFires, schemaStore, validation, registry>>

\* The token input's onChange with a value v >= 1 other than the current one:
\* setInitialTokens(v), and the marking effect re-runs on the new value.
SetInitialTokens(v) ==
    /\ v >= 1
    /\ v # initialTokens
    /\ initialTokens' = v
    /\ marking' = markingEffect(graphData, operations, v)
    /\ last' = [op |-> "init", t |-> <<>>, before |-> marking, enabled |-> FALSE,
                mc |-> morphCounter, bmc |-> basicMorphCounter]
    /\ UNCHANGED <<code, morphCounter, basicMorphCounter, operations, graphData, inMemoryGraph, ledgerText, ledger, pendingFires, schemaStore, validation, registry>>

NextPetri ==
    \/ \E t \in TransitionIds(graphData) : Fire(t)
    \/ Reset
    \/ \E v \in 1..MaxInitialTokens : SetInitialTokens(v)

SpecPetri == InitPetri /\ [][NextPetri]_vars

(***************************************************************************)
(* What the claims say of the engine.                                      *)
(***************************************************************************)
\* The sum of the weights of t's arcs named `name` into place p.
RECURSIVE WeightSum(_, _, _, _, _)
WeightSum(edges, i, t, name, p) ==
    IF i > Len(edges) THEN 0
    ELSE (IF edges[i].source_id = t /\ edges[i].name = name /\ edges[i].target_id = p
          THEN edges[i].weight ELSE 0) + WeightSum(edges, i + 1, t, name, p)

InputWeight(t, p) == WeightSum(graphData.edges, 1, t, HasPriorState, p)

OutputWeight(t, p) == WeightSum(graphData.edges, 1, t, HasPostState, p)

HasInputArc(t) ==
    \E i \in DOMAIN graphData.edges :
        graphData.edges[i].source_id = t /\ graphData.edges[i].name = HasPriorState

\* Places: the targets of `has prior_state` and `has post_state` edges.
PriorTargets ==
    {graphData.edges[i].target_id : i \in {j \in DOMAIN graphData.edges : graphData.edges[j].name = HasPriorState}}

PostTargets ==
    {graphData.edges[i].target_id : i \in {j \in DOMAIN graphData.edges : graphData.edges[j].name = HasPostState}}

\* The enabling rule with weights: every input place holds at least the
\* summed weight of t's arcs into it.
WeightedEnabled(t, m) == \A p \in PriorTargets : MapGet(m, p) >= InputWeight(t, p)

\* No transition node passes the component's enabling test under m.
NoTransitionEnabled(m) ==
    \A t \in TransitionIds(graphData) : ~isTransitionEnabled(graphData, t, m)

\* C1: firing an enabled transition T takes from every place the summed
\* weight of T's `has prior_state` arcs into it, adds the summed weight of T's
\* `has post_state` arcs into it, and changes no other place.
C1_FiringMovesArcWeights ==
    (last.op = "fire" /\ HasInputArc(last.t) /\ WeightedEnabled(last.t, last.before))
        => \A p \in DOMAIN marking \cup DOMAIN last.before :
              MapGet(marking, p)
                 = MapGet(last.before, p) - InputWeight(last.t, p) + OutputWeight(last.t, p)

\* C2: for a transition with an input arc, the enabling test is true exactly
\* when every input place holds at least the summed weight of the arcs into it.
C2_EnabledIffWeightsCovered ==
    \A t \in TransitionIds(graphData) :
        HasInputArc(t) => (isTransitionEnabled(graphData, t, marking) <=> WeightedEnabled(t, marking))

C4_MarkingNonNegative == \A p \in DOMAIN marking : marking[p] >= 0

C27_SourceTransitionNeverEnabled ==
    /\ \A t \in TransitionIds(graphData) :
          ~HasInputArc(t) => ~isTransitionEnabled(graphData, t, marking)
    /\ (last.op = "fire" /\ ~HasInputArc(last.t)) => (~last.enabled /\ marking = last.before)
    /\ graphMode(graphData, operations) = "petri-net"
          => (hasEnabledTransition(graphData, operations, marking)
                <=> \E t \in TransitionIds(graphData) :
                       HasInputArc(t) /\ isTransitionEnabled(graphData, t, marking))

\* A fire request on a transition that has an output arc and no input arc,
\* while the deadlock banner is shown.
C27_Witness ==
    /\ last.op = "fire"
    /\ ~HasInputArc(last.t)
    /\ \E p \in PostTargets : OutputWeight(last.t, p) > 0
    /\ \E p \in DOMAIN marking : marking[p] > 0
    /\ deadlockBanner(graphData, operations, marking)

\* C7: after initialisation and after every reset the marking is the initial
\* marking for the current initialTokens: initialTokens on every target of a
\* `has prior_state` edge, 0 on every place that is a target of
\* `has post_state` edges only, and no other entry.
C7_ResetGivesInitialMarking ==
    last.op \in {"init", "reset"}
        => /\ DOMAIN marking = PriorTargets \cup PostTargets
           /\ \A p \in PriorTargets : marking[p] = initialTokens
           /\ \A p \in PostTargets \ PriorTargets : marking[p] = 0

C7_Witness ==
    /\ last.op = "reset"
    /\ last.before # marking
    /\ initialTokens > 1
    /\ PostTargets \ PriorTargets # {}

(***************************************************************************)
(* Taps on the rendered net: fire requests queued on the marking.          *)
(***************************************************************************)
MaxPending == 2

\* The updater a fire request hands to setMarking, applied by React to the
\* marking the updaters queued before it have produced. A request records
\* the marking on display when it was made.
applyUpdater_OnDisplayed(graph, request, prev) ==
    fireTransition(graph, request.t, request.displayed)

applyUpdater(graph, request, prev) ==
    fireTransition(graph, request.t, prev)

\* React applies the queued updaters in the order of their setMarking calls.
RECURSIVE applyUpdaters(_, _, _, _)
applyUpdaters(graph, queue, i, prev) ==
    IF i > Len(queue) THEN prev
    ELSE applyUpdaters(graph, queue, i + 1, applyUpdater(graph, queue[i], prev))

\* cy.on('tap', 'node[type="pn-transition"]'): the node's data('enabled') is
\* the enabling test on the marking of the last render; if it is set,
\* fireTransition(nodeId) queues its updater.
Tap(t) ==
    /\ Len(pendingFires) < MaxPending
    /\ isTransitionEnabled(graphData, t, marking)
    /\ pendingFires' = Append(pendingFires, [t |-> t, displayed |-> marking])
    /\ last' = [op |-> "tap", t |-> t, before |-> marking, enabled |-> TRUE,
                mc |-> morphCounter, bmc |-> basicMorphCounter]
    /\ UNCHANGED <<code, morphCounter, basicMorphCounter, operations, graphData, marking,
                   initialTokens, inMemoryGraph, ledgerText, ledger, schemaStore,
                   validation, registry>>

\* The next render: the queued updaters are applied and the result is the
\* marking on display.
RenderMarking ==
    /\ pendingFires # <<>>
    /\ marking' = applyUpdaters(graphData, pendingFires, 1, marking)
    /\ pendingFires' = <<>>
    /\ last' = [op |-> "render", t |-> <<>>, before |-> marking, enabled |-> FALSE,
                mc |-> morphCounter, bmc |-> basicMorphCounter, queue |-> pendingFires]
    /\ UNCHANGED <<code, morphCounter, basicMorphCounter, operations, graphData,
                   initialTokens, inMemoryGraph, ledgerText, ledger, schemaStore,
                   validation, registry>>

NextTap ==
    \/ \E t \in TransitionIds(graphData) : Tap(t)
    \/ RenderMarking

SpecTap == InitPetri /\ [][NextTap]_vars

\* The number of t's arcs named `name` into place p.
ArcCount(t, name, p) ==
    Cardinality({i \in DOMAIN graphData.edges :
                    /\ graphData.edges[i].source_id = t
                    /\ graphData.edges[i].name = name
                    /\ graphData.edges[i].target_id = p})

\* A whole fire of t on m: nothing when m does not enable t; otherwise every
\* place loses one token per input arc and gains one per output arc, at once.
WholeFire(t, m) ==
    IF ~isTransitionEnabled(graphData, t, m) THEN m
    ELSE [p \in DOMAIN m \cup PriorTargets \cup PostTargets |->
            IF ArcCount(t, HasPriorState, p) + ArcCount(t, HasPostState, p) > 0
            THEN MapGet(m, p) - ArcCount(t, HasPriorState, p) + ArcCount(t, HasPostState, p)
            ELSE m[p]]

RECURSIVE WholeFiresInTurn(_, _, _)
WholeFiresInTurn(queue, i, m) ==
    IF i > Len(queue) THEN m
    ELSE WholeFiresInTurn(queue, i + 1, WholeFire(queue[i].t, m))

\* C23: the marking a render shows is the one found before the queued fire
\* requests with each request applied as one whole fire, in the order of the
\* requests, each evaluated on the marking its predecessor produced: no
\* marking shows a fire's inputs taken without its outputs given, and a
\* request made on a stale display is tested again on the marking it meets.
C23_FiresAreAtomicAndSerial ==
    last.op = "render" => marking = WholeFiresInTurn(last.queue, 1, last.before)

\* Two requests made on the same display, the second of which is no longer
\* enabled once the first has fired.
C23_Witness ==
    /\ last.op = "render"
    /\ Len(last.queue) = 2
    /\ last.queue[1].displayed = last.queue[2].displayed
    /\ isTransitionEnabled(graphData, last.queue[2].t, last.before)
    /\ ~isTransitionEnabled(graphData, last.queue[2].t, WholeFire(last.queue[1].t, last.before))
    /\ \E p \in PostTargets : marking[p] > last.before[p]

(***************************************************************************)
(* Morphs: the component on a concept-map text that is edited, re-parsed   *)
(* and whose nodes are switched between their morphs.                      *)
(***************************************************************************)
MaxLines == 4           \* lines of an edited text

\* The lines typed into the text.
MorphTextLines ==
    { NodeLine(<<"A">>, Null, <<>>),
      MorphLine(<<"M">>),
      AttrLine(<<"temp">>, "0", "Celsius"),
      AttrLine(<<"temp">>, "0", "Kelvin"),
      RelLine(<<"part", "of">>, << Target(FALSE, 0, <<"B">>, <<>>) >>),
      RelLine(<<"part", "of">>, << Target(TRUE, 2, <<"B">>, <<>>) >>),
      FuncLine(<<"f">>) }

InitMorph == Mount(<<>>)

\* The effects of a render that parsed `text` with the module-level counters
\* as they stand: new operations and graphData, the marking and the
\* in-memory graph re-initialised.
Render(text) ==
    LET parsed == ParseCode(text, morphCounter, basicMorphCounter)
    IN /\ code' = text
       /\ morphCounter' = parsed.morphCounter
       /\ basicMorphCounter' = parsed.basicMorphCounter
       /\ operations' = parsed.operations
       /\ graphData' = parsed.graphData
       /\ marking' = markingEffect(parsed.graphData, parsed.operations, initialTokens)
       /\ inMemoryGraph' = inMemoryGraphEffect(parsed.graphData)
       /\ last' = [op |-> "parse", t |-> <<>>, before |-> marking, enabled |-> FALSE,
                   mc |-> morphCounter, bmc |-> basicMorphCounter]
       /\ validation' = NoValidation
       /\ UNCHANGED <<initialTokens, ledgerText, ledger, pendingFires, schemaStore, registry>>

\* The user types one more line: the code prop changes and useMemo re-parses.
Edit(line) ==
    /\ Len(code) < MaxLines
    /\ Render(Append(code, line))

\* The block is rendered anew on the same text (the note is re-opened): the
\* same text is parsed again.
Remount ==
    /\ last.op # "parse"
    /\ Render(code)

\* A morph radio button of the selected node: handleMorphChange(n, m).
MorphChange(n, m) ==
    /\ graphMode(graphData, operations) # "petri-net"
    /\ Len(inMemoryGraph.nodes[n].morphs) > 1
    /\ inMemoryGraph.nodes[n].morphs[m].morph_id # inMemoryGraph.nodes[n].nbh
    /\ inMemoryGraph' = handleMorphChange(inMemoryGraph, graphData, inMemoryGraph.nodes[n].id,
                                          inMemoryGraph.nodes[n].morphs[m].morph_id)
    /\ last' = [op |-> "morph", t |-> inMemoryGraph.nodes[n].id, before |-> marking,
                enabled |-> FALSE, mc |-> morphCounter, bmc |-> basicMorphCounter]
    /\ UNCHANGED <<code, morphCounter, basicMorphCounter, operations, graphData, marking,
                   initialTokens, ledgerText, ledger, pendingFires, schemaStore, validation, registry>>

NextMorph ==
    \/ \E line \in MorphTextLines : Edit(line)
    \/ Remount
    \/ \E n \in DOMAIN inMemoryGraph.nodes :
          \E m \in DOMAIN inMemoryGraph.nodes[n].morphs : MorphChange(n, m)

SpecMorph == InitMorph /\ [][NextMorph]_vars

\* An item without the list of morphs it was linked to.
Content(item) == [item EXCEPT !.morph_ids = <<>>]

\* The attribute and relation items of node id `n` declared under morph `m`:
\* the items pass 3 linked to m.
DeclaredUnder(items, n, m) ==
    {Content(items[i]) : i \in {j \in DOMAIN items :
        /\ items[j].source_id = n
        /\ \E k \in DOMAIN items[j].morph_ids : items[j].morph_ids[k] = m}}

\* The items of node id `n` on display.
Visible(items, n) ==
    {Content(items[i]) : i \in {j \in DOMAIN items : items[j].source_id = n}}

\* Items that come from attribute and relation lines (not from function lines).
FromAttributeOrRelationLine(items) ==
    SelectSeq(items, LAMBDA x : \A i \in DOMAIN graphData.attributes :
                                   ~(graphData.attributes[i].value = "function"
                                     /\ Content(graphData.attributes[i]) = Content(x)))

\* C8: while a node's basic morph is active nothing declared only under one
\* of its other morphs is on display, and while another morph is active
\* nothing declared only in the basic content is on display.
C8_MorphIsolation ==
    \A i \in DOMAIN inMemoryGraph.nodes :
        LET node == inMemoryGraph.nodes[i]
            basic == node.morphs[1].morph_id
        IN \A k \in DOMAIN node.morphs :
              LET other == node.morphs[k].morph_id
              IN (other # node.nbh /\ (other = basic \/ node.nbh = basic))
                    => /\ Visible(inMemoryGraph.edges, node.id)
                            \cap (DeclaredUnder(graphData.edges, node.id, other)
                                    \ DeclaredUnder(graphData.edges, node.id, node.nbh)) = {}
                       /\ Visible(FromAttributeOrRelationLine(inMemoryGraph.attributes), node.id)
                            \cap (DeclaredUnder(graphData.attributes, node.id, other)
                                    \ DeclaredUnder(graphData.attributes, node.id, node.nbh)) = {}

\* C9: whatever was parsed before, the operations and the graph of the
\* current text are those a parse with both counters at zero gives.
C9_ParseIsIdempotent ==
    LET fresh == ParseCode(code, 0, 0)
    IN /\ operations = fresh.operations
       /\ graphData = fresh.graphData

C9_Witness ==
    /\ last.op = "parse"
    /\ last.mc > 0
    /\ last.bmc > 1
    /\ \E i \in DOMAIN graphData.nodes : Len(graphData.nodes[i].morphs) > 1
    /\ Len(graphData.nodes) > 1

(***************************************************************************)
(* operationsToGraph on operation streams of any provenance.               *)
(***************************************************************************)
MaxOps == 3             \* operations of a stream

\* addNode operations as the parser writes them: a heading (options.role,
\* with or without adjective), a relation target placeholder (payload.role
\* 'class'), and one carrying no role at all.
AddNodeOps ==
    { AddNodeOp(<<id>>, <<id>>, r[1], r[2], adj, Null) :
        id \in {"a", "b"},
        r \in {<<"class", Null>>, <<Null, "Molecule">>, <<Null, Null>>},
        adj \in {<<>>, <<"big">>} }

OtherOps ==
    { AddRelationOp(<<"rel", "a", "part", "of", "b">>, <<"a">>, <<"b">>, <<"part", "of">>,
                    FALSE, 0, <<>>, Null),
      AddMorphOp(<<"a", "morph", "M">>, <<"a">>,
                 [NoMorph EXCEPT !.morph_id = <<"a", "morph", "m", "1">>, !.node_id = <<"a">>,
                                 !.name = <<"M">>]),
      \* the relation and an attribute declared under "## M"
      AddRelationOp(<<"rel", "a", "part", "of", "b">>, <<"a">>, <<"b">>, <<"part", "of">>,
                    FALSE, 0, <<"a", "morph", "m", "1">>, Null),
      AddAttributeOp(<<"attr", "a", "temp", "350ca8">>, <<"a">>, <<"temp">>, "0", "K",
                     <<"a", "morph", "m", "1">>),
      \* an addMorph whose payload already lists a relation id
      AddMorphOp(<<"a", "morph", "N">>, <<"a">>,
                 [NoMorph EXCEPT !.morph_id = <<"a", "morph", "n", "2">>, !.node_id = <<"a">>,
                                 !.name = <<"N">>,
                                 !.relationNode_ids = << <<"rel", "a", "part", "of", "c">> >>]) }

OpStreams == SeqsUpTo(AddNodeOps \cup OtherOps, MaxOps)

InitOps ==
    /\ operations \in OpStreams
    /\ code = <<>>
    /\ morphCounter = 0
    /\ basicMorphCounter = 0
    /\ graphData = EmptyGraph
    /\ initialTokens = 1
    /\ marking = EmptyMap
    /\ inMemoryGraph = EmptyGraph
    /\ ledgerText = <<>>
    /\ ledger = NoLedger
    /\ pendingFires = <<>>
    /\ schemaStore = NoUserSchemas
    /\ validation = NoValidation
    /\ registry = NewMorphRegistry
    /\ last = NoLast

\* graphData = operationsToGraph(operations)
Assemble ==
    LET built == operationsToGraph(operations, basicMorphCounter)
    IN /\ graphData' = built.graph
       /\ basicMorphCounter' = built.counter
       /\ last' = [op |-> "assemble", t |-> <<>>, before |-> marking, enabled |-> FALSE,
                   mc |-> morphCounter, bmc |-> basicMorphCounter]
       /\ UNCHANGED <<code, morphCounter, operations, marking, initialTokens, inMemoryGraph, ledgerText, ledger, pendingFires, schemaStore, validation, registry>>

NextOps == Assemble

SpecOps == InitOps /\ [][NextOps]_vars

\* Is ops[i] an addNode, and the first one of its id?
IsFirstAddNode(ops, i) ==
    /\ ops[i].type = "addNode"
    /\ \A j \in 1..(i - 1) : ~(ops[j].type = "addNode" /\ ops[j].id = ops[i].id)

\* The stream without the addNode operations that repeat an earlier id.
WithoutLaterAddNodes(ops) ==
    LET keep == {i \in DOMAIN ops : ops[i].type # "addNode" \/ IsFirstAddNode(ops, i)}
        F[i \in 0..Len(ops)] ==
            IF i = 0 THEN <<>>
            ELSE IF i \in keep THEN Append(F[i - 1], ops[i]) ELSE F[i - 1]
    IN F[Len(ops)]

\* The role an addNode operation states.
StatedRole(op) ==
    CASE op.optRole # Null -> op.optRole
      [] op.optRole = Null /\ op.role # Null -> op.role
      [] OTHER -> "individual"

AttachedTo(type, n, m) ==
    LET node == graphData.nodes[n]
        mine == {i \in DOMAIN operations :
                    /\ operations[i].type = type
                    /\ operations[i].source = node.id
                    /\ IF operations[i].morphId = <<>> THEN m = 1
                       ELSE /\ node.morphs[m].morph_id = operations[i].morphId
                            /\ \A k \in 1..(m - 1) : node.morphs[k].morph_id # operations[i].morphId}
        F[i \in 0..Len(operations)] ==
            IF i = 0 THEN <<>>
            ELSE IF i \in mine THEN Append(F[i - 1], operations[i].id) ELSE F[i - 1]
    IN F[Len(operations)]

\* The morphs declared for the node of id `id`: the addMorph payloads naming
\* it, in stream order.
DeclaredMorphs(id) ==
    LET F[i \in 0..Len(operations)] ==
            IF i = 0 THEN <<>>
            ELSE IF operations[i].type = "addMorph" /\ operations[i].source = id
                 THEN Append(F[i - 1], operations[i].morph) ELSE F[i - 1]
    IN F[Len(operations)]

\* The morph ids pass 3 records on the item of operation op.
RecordedMorphIds(op) ==
    LET at == {n \in DOMAIN graphData.nodes : graphData.nodes[n].id = op.source}
    IN IF at = {} THEN <<>>
       ELSE LET node == graphData.nodes[CHOOSE n \in at : TRUE]
            IN IF op.morphId = <<>> THEN << node.morphs[1].morph_id >>
               ELSE IF \E m \in DOMAIN node.morphs : node.morphs[m].morph_id = op.morphId
               THEN << op.morphId >> ELSE <<>>

\* C24: in the assembled graph the relation list of every morph is what its
\* addMorph gave it (nothing for a basic morph) followed by the ids of the
\* addRelation operations that name it, or that name no morph when it is the
\* node's first morph, in stream order, wherever the addMorph stands in the
\* stream; likewise for attributes; and every edge and attribute of such an
\* operation records that morph's id.
C24_AttachedToNamedMorph ==
    last.op = "assemble" =>
        /\ \A n \in DOMAIN graphData.nodes :
              LET node == graphData.nodes[n]
                  declared == DeclaredMorphs(node.id)
              IN /\ Len(node.morphs) = 1 + Len(declared)
                 /\ \A m \in DOMAIN node.morphs :
                       /\ node.morphs[m].relationNode_ids
                             = (IF m = 1 THEN <<>> ELSE declared[m - 1].relationNode_ids)
                                  \o AttachedTo("addRelation", n, m)
                       /\ \A i \in DOMAIN operations :
                             (operations[i].type = "addAttribute" /\ operations[i].source = node.id)
                                 => \A k \in DOMAIN node.morphs :
                                       (\E j \in DOMAIN node.morphs[k].attributeNode_ids :
                                            node.morphs[k].attributeNode_ids[j] = operations[i].id)
                                          <=> (\E j \in DOMAIN AttachedTo("addAttribute", n, k) :
                                                  AttachedTo("addAttribute", n, k)[j] = operations[i].id)
        /\ LET rels == SelectSeq(operations, LAMBDA op : op.type = "addRelation")
           IN /\ Len(graphData.edges) = Len(rels)
              /\ \A i \in DOMAIN rels :
                    /\ graphData.edges[i].id = rels[i].id
                    /\ graphData.edges[i].morph_ids = RecordedMorphIds(rels[i])
        /\ LET attrs == SelectSeq(operations, LAMBDA op : op.type = "addAttribute")
           IN /\ Len(graphData.attributes) = Len(attrs)
              /\ \A i \in DOMAIN attrs :
                    /\ graphData.attributes[i].id = attrs[i].id
                    /\ graphData.attributes[i].morph_ids = RecordedMorphIds(attrs[i])

\* A relation that names morph M and stands before M's addMorph in the
\* stream: it is on M's list, not on the basic morph's.
C24_Witness ==
    /\ last.op = "assemble"
    /\ \E i, j \in DOMAIN operations :
          /\ i < j
          /\ operations[i].type = "addRelation"
          /\ operations[i].morphId = <<"a", "morph", "m", "1">>
          /\ operations[j].type = "addMorph"
          /\ operations[j].morph.morph_id = <<"a", "morph", "m", "1">>
    /\ Len(graphData.nodes) = 1
    /\ Len(graphData.nodes[1].morphs) = 2
    /\ graphData.nodes[1].morphs[1].relationNode_ids = <<>>
    /\ graphData.nodes[1].morphs[2].relationNode_ids = << <<"rel", "a", "part", "of", "b">> >>
    /\ graphData.edges[1].morph_ids = << <<"a", "morph", "m", "1">> >>

HasBasicMorphAndOwnPointer(node) ==
    /\ Len(node.morphs) >= 1
    /\ node.morphs[1].name = <<"basic">>
    /\ node.morphs[1].node_id = node.id
    /\ \E k \in DOMAIN node.morphs : node.morphs[k].morph_id = node.nbh

\* C11: in the assembled graph and in the in-memory graph, after any morph
\* switches, every node has its automatically created basic morph first,
\* keeps every morph it was assembled with, and points at one of its own
\* morphs, the basic one after assembly.
C11_BasicMorphKept ==
    /\ \A i \in DOMAIN graphData.nodes :
          /\ HasBasicMorphAndOwnPointer(graphData.nodes[i])
          /\ graphData.nodes[i].nbh = graphData.nodes[i].morphs[1].morph_id
    /\ Len(inMemoryGraph.nodes) = Len(graphData.nodes)
    /\ \A i \in DOMAIN inMemoryGraph.nodes :
          /\ HasBasicMorphAndOwnPointer(inMemoryGraph.nodes[i])
          /\ inMemoryGraph.nodes[i].id = graphData.nodes[i].id
          /\ inMemoryGraph.nodes[i].morphs = graphData.nodes[i].morphs
          /\ last.op = "parse"
                => inMemoryGraph.nodes[i].nbh = inMemoryGraph.nodes[i].morphs[1].morph_id

C11_Witness ==
    /\ last.op = "morph"
    /\ \E i \in DOMAIN inMemoryGraph.nodes :
          /\ Len(inMemoryGraph.nodes[i].morphs) > 2
          /\ inMemoryGraph.nodes[i].nbh = inMemoryGraph.nodes[i].morphs[3].morph_id
    /\ Len(inMemoryGraph.nodes) > 1

(***************************************************************************)
(* Accounting texts: the component on a text of accounts and transactions. *)
(***************************************************************************)
MaxAccountLines == 5    \* lines of an edited accounting text

\* The lines of the Quick Start example, and a heading for its second account.
AccountTextLines ==
    { NodeLine(<<"Cash">>, "Asset", <<>>),
      AttrLine(<<"balance">>, "1000", Null),
      NodeLine(<<"Office">>, "Expense", <<>>),
      NodeLine(<<"Buy">>, "Transaction", <<>>),
      RelLine(<<"debit">>, << Target(TRUE, 50, <<"Office">>, <<>>) >>),
      RelLine(<<"credit">>, << Target(TRUE, 50, <<"Cash">>, <<>>) >>) }

InitAccounting == Mount(<<>>)

\* The user types one more line of the accounting text.
EditAccounting(line) ==
    /\ Len(code) < MaxAccountLines
    /\ Render(Append(code, line))

NextAccounting == \E line \in AccountTextLines : EditAccounting(line)

SpecAccounting == InitAccounting /\ [][NextAccounting]_vars

\* The number a balance attribute's value denotes.
AmountOf(v) == CASE v = "1000" -> 1000 [] v = "100" -> 100 [] OTHER -> 0

\* The opening balance of account p: its balance attribute, 0 when absent.
OpeningBalance(p) ==
    IF \E i \in DOMAIN graphData.attributes :
          graphData.attributes[i].source_id = p /\ graphData.attributes[i].name = <<"balance">>
    THEN AmountOf(graphData.attributes[CHOOSE i \in DOMAIN graphData.attributes :
                    /\ graphData.attributes[i].source_id = p
                    /\ graphData.attributes[i].name = <<"balance">>].value)
    ELSE 0

TransactionIds ==
    {graphData.nodes[i].id : i \in {j \in DOMAIN graphData.nodes :
                                        graphData.nodes[j].role = "Transaction"}}

\* Sum over the transactions of the weights of their arcs of `name` into p.
RECURSIVE BookedWeight(_, _, _)
BookedWeight(i, name, p) ==
    IF i > Len(graphData.edges) THEN 0
    ELSE (IF /\ graphData.edges[i].source_id \in TransactionIds
             /\ graphData.edges[i].name = name
             /\ graphData.edges[i].target_id = p
          THEN graphData.edges[i].weight ELSE 0) + BookedWeight(i + 1, name, p)

\* The balance of account p once every transaction is booked: debits (post
\* arcs) added to, credits (prior arcs) taken from the opening balance.
BookedBalance(p) ==
    OpeningBalance(p) + BookedWeight(1, HasPostState, p) - BookedWeight(1, HasPriorState, p)

AccountPlaces ==
    {graphData.edges[i].target_id : i \in {j \in DOMAIN graphData.edges :
        /\ graphData.edges[j].source_id \in TransactionIds
        /\ graphData.edges[j].name \in {HasPriorState, HasPostState}}}

\* C12: on a text with Transaction nodes, the marking after initialisation
\* gives every account place its balance attribute (0 when absent) with
\* every transaction booked once: the Quick Start text gives Cash = 950 and
\* Office = 50.
C12_AccountingInitialisation ==
    (last.op = "parse" /\ TransactionIds # {})
        => \A p \in AccountPlaces : p \in DOMAIN marking /\ marking[p] = BookedBalance(p)

\* The sum of the balances of the accounts of `role`.
RECURSIVE RoleBalance(_, _)
RoleBalance(i, role) ==
    IF i > Len(graphData.nodes) THEN 0
    ELSE (IF graphData.nodes[i].role = role THEN MapGet(marking, graphData.nodes[i].id) ELSE 0)
         + RoleBalance(i + 1, role)

RECURSIVE RoleOpening(_, _)
RoleOpening(i, role) ==
    IF i > Len(graphData.nodes) THEN 0
    ELSE (IF graphData.nodes[i].role = role THEN OpeningBalance(graphData.nodes[i].id) ELSE 0)
         + RoleOpening(i + 1, role)

\* Every transaction's debit total equals its credit total.
RECURSIVE ArcTotal(_, _, _)
ArcTotal(i, t, name) ==
    IF i > Len(graphData.edges) THEN 0
    ELSE (IF graphData.edges[i].source_id = t /\ graphData.edges[i].name = name
          THEN graphData.edges[i].weight ELSE 0) + ArcTotal(i + 1, t, name)

AllTransactionsBalanced ==
    \A t \in TransactionIds : ArcTotal(1, t, HasPostState) = ArcTotal(1, t, HasPriorState)

OpeningEquationHolds ==
    RoleOpening(1, "Asset") - RoleOpening(1, "Liability") - RoleOpening(1, "Equity")
        - RoleOpening(1, "Revenue") + RoleOpening(1, "Expense") = 0

\* C13: when every transaction is balanced and the opening balances satisfy
\* the equation, every account a transaction touches carries a balance after
\* initialisation and Assets - Liabilities - Equity - Revenue + Expenses = 0.
C13_AccountingEquation ==
    (last.op = "parse" /\ AccountPlaces # {} /\ AllTransactionsBalanced /\ OpeningEquationHolds)
        => /\ AccountPlaces \subseteq DOMAIN marking
           /\ RoleBalance(1, "Asset") - RoleBalance(1, "Liability") - RoleBalance(1, "Equity")
                - RoleBalance(1, "Revenue") + RoleBalance(1, "Expense") = 0

(***************************************************************************)
(* Relation lines: the component on "# A" followed by relation lines that  *)
(* are typed target by target.                                             *)
(***************************************************************************)
MaxRelationText == 4    \* relation lines plus targets of a text

RelationNames == {<<"debit">>, <<"credit">>, <<"part", "of">>, <<"constructor">>}

\* "B", "6 CO2", "6.00 CO2", "6.000 CO2"
RelationTargets ==
    { Target(FALSE, 0, <<"B">>, <<>>), Target(TRUE, 6, <<"CO2">>, <<>>),
      DecimalTarget(6, 2, <<"CO2">>, <<>>), DecimalTarget(6, 3, <<"CO2">>, <<>>) }

RECURSIVE TargetCount(_, _)
TargetCount(text, i) ==
    IF i > Len(text) THEN 0 ELSE Len(text[i].targets) + TargetCount(text, i + 1)

InitRelations == Mount(<< NodeLine(<<"A">>, Null, <<>>) >>)

\* The user types a relation line with its first target: "<name> target;".
TypeRelation(name, t) ==
    /\ (Len(code) - 1) + TargetCount(code, 1) + 1 < MaxRelationText
    /\ Render(Append(code, RelLine(name, <<t>>)))

\* The user adds "target;" to the last relation line.
TypeTarget(t) ==
    /\ Len(code) > 1
    /\ (Len(code) - 1) + TargetCount(code, 1) < MaxRelationText
    /\ Render([code EXCEPT ![Len(code)].targets = Append(@, t)])

NextRelations ==
    \/ \E name \in RelationNames : \E t \in RelationTargets : TypeRelation(name, t)
    \/ \E t \in RelationTargets : TypeTarget(t)

SpecRelations == InitRelations /\ [][NextRelations]_vars

\* The lines of the text that carry at least one target.
LinesWithTarget == {i \in 2..Len(code) : code[i].targets # <<>>}

\* Where the operations of the first target of line i stand when every line
\* before it gave the two operations of its first target: the addNode, and
\* after it the addRelation.
FirstTargetOp(i) == 2 + 2 * Cardinality({j \in LinesWithTarget : j < i})

\* C14: a line named exactly debit (credit) gives an addRelation named
\* `has post_state` (`has prior_state`) carrying the parsed amount and an
\* implicit addNode of role Account; any other name is passed through
\* unchanged with an implicit addNode of role class.
C14_AccountingAliases ==
    \A i \in LinesWithTarget :
        LET node == operations[FirstTargetOp(i)]
            rel == operations[FirstTargetOp(i) + 1]
            t == code[i].targets[1]
        IN /\ node.type = "addNode" /\ rel.type = "addRelation"
           /\ code[i].name = <<"debit">>
                => rel.name = <<"has", "post_state">> /\ node.role = "Account"
           /\ code[i].name = <<"credit">>
                => rel.name = <<"has", "prior_state">> /\ node.role = "Account"
           /\ code[i].name \notin {<<"debit">>, <<"credit">>}
                => rel.name = code[i].name /\ node.role = "class"
           /\ (code[i].name \in {<<"debit">>, <<"credit">>} /\ t.hasW /\ t.decimals <= 2)
                => rel.weight = t.w

\* The k-th line with a target, counted from 1.
EdgeOfLine(i) == 1 + Cardinality({j \in LinesWithTarget : j < i})

\* C15: the first target of a line, written "N Target", gives one edge of
\* weight N to the node id of Target alone; written without a numeric token
\* it gives an edge of weight 1; the operation carries the same weight.
C15_WeightRoundTrip ==
    \A i \in LinesWithTarget :
        LET t == code[i].targets[1]
            rel == operations[FirstTargetOp(i) + 1]
            edge == graphData.edges[EdgeOfLine(i)]
        IN /\ EdgeOfLine(i) <= Len(graphData.edges)
           /\ edge.weight = (IF t.hasW THEN t.w ELSE 1)
           /\ edge.target_id = cleanName(t.name)
           /\ rel.weight = edge.weight

\* C16: a line with K targets gives K addNode and K addRelation operations
\* and K edges.
C16_EveryTargetGivesAnEdge ==
    /\ Len(graphData.edges) = TargetCount(code, 1)
    /\ Len(operations) = 1 + 2 * TargetCount(code, 1)

(***************************************************************************)
(* Mindmap blocks: the component on "# A <part of>" followed by items that *)
(* are typed one by one.                                                   *)
(***************************************************************************)
MaxItems == 4           \* items of a mindmap block

Indents == {0, 2, 4}

ItemNames == {<<"X">>, <<"Y">>}

InitMindmap == Mount(<< MindmapHeadLine(<<"A">>, <<"part", "of">>) >>)

\* The user types one more item line: indent spaces, "- ", name.
TypeItem(indent, name) ==
    /\ Len(code) - 1 < MaxItems
    /\ Render(Append(code, MindmapItemLine(indent, name)))

NextMindmap == \E indent \in Indents : \E name \in ItemNames : TypeItem(indent, name)

SpecMindmap == InitMindmap /\ [][NextMindmap]_vars

\* The earlier item lines of line i whose indentation is strictly smaller.
SmallerBefore(i) == {j \in 2..(i - 1) : code[j].indent < code[i].indent}

\* The line whose node is the parent of item line i: the latest of
\* SmallerBefore(i), or the heading (line 1) when there is none.
ParentLine(i) ==
    IF SmallerBefore(i) = {} THEN 1
    ELSE CHOOSE j \in SmallerBefore(i) : \A k \in SmallerBefore(i) : k <= j

\* C17: the addRelation of every item line has as source the most recently
\* seen earlier item of strictly smaller indentation, or the root when
\* there is none.
C17_MindmapParent ==
    \A i \in 2..Len(code) :
        /\ Len(operations) >= 2 * i - 1
        /\ operations[2 * i - 1].type = "addRelation"
        /\ operations[2 * i - 1].target = cleanName(code[i].name)
        /\ operations[2 * i - 1].source = cleanName(code[ParentLine(i)].name)
        /\ graphData.edges[i - 1].source_id = cleanName(code[ParentLine(i)].name)

\* Indentation that goes down and then up again, the last item under an
\* item that is not the one right before it.
C17_Witness ==
    /\ last.op = "parse"
    /\ Len(code) = 5
    /\ code[2].indent < code[3].indent
    /\ code[4].indent < code[3].indent
    /\ code[4].indent > 0
    /\ code[5].indent = code[3].indent
    /\ code[2].name # code[4].name
    /\ graphMode(graphData, operations) = "mindmap"

(***************************************************************************)
(* The ledger: parseLedger and computeLedger.  A ledger text is a sequence *)
(* of line records, one shape for every kind of line; k tells which of the *)
(* parser's patterns the trimmed line satisfies.  Amounts are in cents,    *)
(* a date is the number yyyymmdd its digits write (localeCompare orders    *)
(* the dates DATE_REGEX accepts as it orders these numbers).               *)
(***************************************************************************)
BlankLedgerLine ==
    [k |-> "blank", name |-> Null, balance |-> 0, date |-> 0, amount |-> 0,
     account |-> Null, target |-> Null, tags |-> <<>>, directive |-> Null]

\* "# a comment"
CommentLine == [BlankLedgerLine EXCEPT !.k = "comment"]

\* "---"
SeparatorLine == [BlankLedgerLine EXCEPT !.k = "separator"]

\* "|------|------|"
TableSeparatorLine == [BlankLedgerLine EXCEPT !.k = "tableseparator"]

\* "| Date | Description | Amount | Account | Tags |"
HeaderRowLine == [BlankLedgerLine EXCEPT !.k = "header"]

\* "@account Name balance"
AccountLine(name, balance) ==
    [BlankLedgerLine EXCEPT !.k = "account", !.name = name, !.balance = balance]

\* "| date | description | amount | account[ -> target] | #tag #tag |": a row
\* parseTableRow accepts; target is Null without "->", tags are the words
\* of the remaining cells that start with "#", without it.
RowLine(date, amount, account, target, tags) ==
    [BlankLedgerLine EXCEPT !.k = "row", !.date = date, !.amount = amount,
                            !.account = account, !.target = target, !.tags = tags]

\* "| yesterday | Coffee | -4.00 | Cash |": a row parseTableRow rejects.
MalformedRowLine == [BlankLedgerLine EXCEPT !.k = "malformedrow"]

\* "balance", "summary #tag", "chart pie categories": a line parseDirective accepts.
DirectiveLine(type) == [BlankLedgerLine EXCEPT !.k = "directive", !.directive = type]

\* Any other text.
OtherLine == [BlankLedgerLine EXCEPT !.k = "other"]

\* parseCategories
parseCategories(tags) == tags

\* parseTableRow on a line of kind "row"
parseTableRow(line) ==
    [date |-> line.date, amount |-> line.amount, account |-> line.account,
     targetAccount |-> line.target, categories |-> parseCategories(line.tags)]

\* One step of the stable sort by date: tx goes after every transaction
\* whose date is not later than its own.
RECURSIVE SortedInsert(_, _)
SortedInsert(sorted, tx) ==
    IF sorted = <<>> THEN <<tx>>
    ELSE IF sorted[Len(sorted)].date <= tx.date THEN Append(sorted, tx)
    ELSE Append(SortedInsert(SubSeq(sorted, 1, Len(sorted) - 1), tx), sorted[Len(sorted)])

\* transactions.sort((a, b) => a.date.localeCompare(b.date))
RECURSIVE SortByDate(_, _, _)
SortByDate(transactions, i, sorted) ==
    IF i > Len(transactions) THEN sorted
    ELSE SortByDate(transactions, i + 1, SortedInsert(sorted, transactions[i]))

\* Variant of the loop body in which an unparseable line ends the parse of
\* what follows it.
ParseLine_StopsAtError(acc, line, i) ==
    IF acc.errors # <<>> THEN acc
    ELSE IF line.k \in {"blank", "comment"} THEN acc
    ELSE IF line.k = "separator" THEN [acc EXCEPT !.inDirectives = TRUE]
    ELSE IF acc.inDirectives
    THEN IF line.k = "directive"
         THEN [acc EXCEPT !.directives = Append(@, [type |-> line.directive])]
         ELSE [acc EXCEPT !.errors = Append(@, [line |-> i, message |-> "Unknown directive"])]
    ELSE IF line.k = "tableseparator" THEN acc
    ELSE IF line.k = "account"
    THEN [acc EXCEPT !.accounts = Append(@, [name |-> line.name, initialBalance |-> line.balance])]
    ELSE IF line.k = "header" THEN acc
    ELSE IF line.k = "row" THEN [acc EXCEPT !.transactions = Append(@, parseTableRow(line))]
    ELSE [acc EXCEPT !.errors = Append(@, [line |-> i, message |-> "Could not parse"])]

\* The body of parseLedger's loop on line i (1-based); acc is
\* [accounts, transactions, directives, errors, inDirectives].
ParseLine(acc, line, i) ==
    IF line.k \in {"blank", "comment"} THEN acc
    ELSE IF line.k = "separator" THEN [acc EXCEPT !.inDirectives = TRUE]
    ELSE IF acc.inDirectives
    THEN IF line.k = "directive"
         THEN [acc EXCEPT !.directives = Append(@, [type |-> line.directive])]
         ELSE [acc EXCEPT !.errors = Append(@, [line |-> i, message |-> "Unknown directive"])]
    ELSE IF line.k = "tableseparator" THEN acc
    ELSE IF line.k = "account"
    THEN [acc EXCEPT !.accounts = Append(@, [name |-> line.name, initialBalance |-> line.balance])]
    ELSE IF line.k = "header" THEN acc
    ELSE IF line.k = "row" THEN [acc EXCEPT !.transactions = Append(@, parseTableRow(line))]
    ELSE [acc EXCEPT !.errors = Append(@, [line |-> i, message |-> "Could not parse"])]

RECURSIVE ParseLines(_, _, _)
ParseLines(lines, i, acc) ==
    IF i > Len(lines) THEN acc
    ELSE ParseLines(lines, i + 1, ParseLine(acc, lines[i], i))

\* parseLedger
parseLedger(lines) ==
    LET acc == ParseLines(lines, 1, [accounts |-> <<>>, transactions |-> <<>>,
                                     directives |-> <<>>, errors |-> <<>>,
                                     inDirectives |-> FALSE])
    IN [accounts |-> acc.accounts, transactions |-> SortByDate(acc.transactions, 1, <<>>),
        directives |-> acc.directives, errors |-> acc.errors]

\* balances: the Map of computeLedger as the sequence of its entries, in
\* insertion order.
RECURSIVE BalanceIndex(_, _, _)
BalanceIndex(balances, name, i) ==
    IF i > Len(balances) THEN 0
    ELSE IF balances[i].name = name THEN i ELSE BalanceIndex(balances, name, i + 1)

BalanceHas(balances, name) == BalanceIndex(balances, name, 1) # 0

BalanceGet(balances, name) ==
    IF BalanceHas(balances, name) THEN balances[BalanceIndex(balances, name, 1)].balance ELSE 0

BalanceSet(balances, name, v) ==
    IF BalanceHas(balances, name)
    THEN [balances EXCEPT ![BalanceIndex(balances, name, 1)].balance = v]
    ELSE Append(balances, [name |-> name, balance |-> v])

\* for (const account of data.accounts) balances.set(...)
RECURSIVE OpeningBalances(_, _, _)
OpeningBalances(accounts, i, balances) ==
    IF i > Len(accounts) THEN balances
    ELSE OpeningBalances(accounts, i + 1,
                         BalanceSet(balances, accounts[i].name, accounts[i].initialBalance))

\* Variant of the loop body that books a transfer on its source account only.
ApplyTransaction_NoCounterEntry(acc, tx) ==
    LET b0 == IF BalanceHas(acc.balances, tx.account) THEN acc.balances
              ELSE BalanceSet(acc.balances, tx.account, 0)
        newBalance == BalanceGet(b0, tx.account) + tx.amount
        b1 == BalanceSet(b0, tx.account, newBalance)
        b2 == IF tx.targetAccount # Null /\ ~BalanceHas(b1, tx.targetAccount)
              THEN BalanceSet(b1, tx.targetAccount, 0) ELSE b1
    IN [balances |-> b2,
        rows |-> Append(acc.rows,
                    [date |-> tx.date, amount |-> tx.amount, account |-> tx.account,
                     categories |-> tx.categories, runningBalance |-> newBalance])]

\* The body of the loop over data.transactions; acc is [balances, rows].
ApplyTransaction(acc, tx) ==
    LET b0 == IF BalanceHas(acc.balances, tx.account) THEN acc.balances
              ELSE BalanceSet(acc.balances, tx.account, 0)
        newBalance == BalanceGet(b0, tx.account) + tx.amount
        b1 == BalanceSet(b0, tx.account, newBalance)
        b2 == IF tx.targetAccount # Null
              THEN LET b == IF BalanceHas(b1, tx.targetAccount) THEN b1
                            ELSE BalanceSet(b1, tx.targetAccount, 0)
                   IN BalanceSet(b, tx.targetAccount, BalanceGet(b, tx.targetAccount) - tx.amount)
              ELSE b1
    IN [balances |-> b2,
        rows |-> Append(acc.rows,
                    [date |-> tx.date, amount |-> tx.amount, account |-> tx.account,
                     categories |-> tx.categories, runningBalance |-> newBalance])]

RECURSIVE ApplyTransactions(_, _, _)
ApplyTransactions(transactions, i, acc) ==
    IF i > Len(transactions) THEN acc
    ELSE ApplyTransactions(transactions, i + 1, ApplyTransaction(acc, transactions[i]))

\* The buckets a transaction is added to.
CategoriesOf(tx) == IF Len(tx.categories) > 0 THEN tx.categories ELSE <<"uncategorized">>

\* for (const cat of cats): entry.total += tx.amount; entry.count += 1
RECURSIVE AddToCategories(_, _, _, _)
AddToCategories(totals, cats, i, amount) ==
    IF i > Len(cats) THEN totals
    ELSE LET entry == IF cats[i] \in DOMAIN totals THEN totals[cats[i]]
                      ELSE [total |-> 0, count |-> 0]
             next == [total |-> entry.total + amount, count |-> entry.count + 1]
         IN AddToCategories([c \in DOMAIN totals \cup {cats[i]} |->
                                IF c = cats[i] THEN next ELSE totals[c]],
                            cats, i + 1, amount)

RECURSIVE CategoryTotals(_, _, _)
CategoryTotals(transactions, i, totals) ==
    IF i > Len(transactions) THEN totals
    ELSE CategoryTotals(transactions, i + 1,
            AddToCategories(totals, CategoriesOf(transactions[i]), 1, transactions[i].amount))

\* The tags of the model in the order localeCompare gives them.
CategoryOrder == <<"food", "fun", "uncategorized">>

\* categorySummaries, sorted by category
RECURSIVE SortedSummaries(_, _)
SortedSummaries(totals, i) ==
    IF i > Len(CategoryOrder) THEN <<>>
    ELSE (IF CategoryOrder[i] \in DOMAIN totals
          THEN << [category |-> CategoryOrder[i], total |-> totals[CategoryOrder[i]].total,
                   count |-> totals[CategoryOrder[i]].count] >>
          ELSE <<>>) \o SortedSummaries(totals, i + 1)

\* computeLedger
computeLedger(data) ==
    LET done == ApplyTransactions(data.transactions, 1,
                    [balances |-> OpeningBalances(data.accounts, 1, <<>>), rows |-> <<>>])
    IN [rows |-> done.rows, accountBalances |-> done.balances,
        categorySummaries |->
            SortedSummaries(CategoryTotals(data.transactions, 1, [c \in {} |-> 0]), 1)]

(***************************************************************************)
(* LedgerView on a ledger text that is typed line by line.                 *)
(***************************************************************************)
MaxLedgerLines == 3     \* lines of a ledger text

LedgerTextLines ==
    { AccountLine("Cash", 10000), AccountLine("Savings", 2500),
      RowLine(20240102, -400, "Cash", Null, <<"food">>),
      RowLine(20240101, 500, "Bank", Null, <<>>),
      RowLine(20240101, -400, "Cash", "Bank", <<"food", "fun">>),
      RowLine(20240101, 500, "Cash", "Cash", <<"fun">>),
      RowLine(20240102, -400, "Cash", Null, <<"food", "food">>),
      SeparatorLine, DirectiveLine("balance"), OtherLine, HeaderRowLine,
      TableSeparatorLine, MalformedRowLine, CommentLine }

\* const data = useMemo(() => parseLedger(code), [code]);
\* const computed = useMemo(() => computeLedger(data), [data])
LedgerOf(text) ==
    LET data == parseLedger(text) IN [data |-> data, computed |-> computeLedger(data)]

InitLedger ==
    /\ Mount(<<>>)

\* The user types one more line of the ledger text.
TypeLedgerLine(line) ==
    /\ Len(ledgerText) < MaxLedgerLines
    /\ ledgerText' = Append(ledgerText, line)
    /\ ledger' = LedgerOf(Append(ledgerText, line))
    /\ last' = [op |-> "ledger", t |-> <<>>, before |-> marking, enabled |-> FALSE,
                mc |-> morphCounter, bmc |-> basicMorphCounter]
    /\ UNCHANGED <<code, morphCounter, basicMorphCounter, operations, graphData, marking,
                   initialTokens, inMemoryGraph, pendingFires, schemaStore, validation, registry>>

NextLedger == \E line \in LedgerTextLines : TypeLedgerLine(line)

SpecLedger == InitLedger /\ [][NextLedger]_vars

\* The transaction rows of the text in file order: the accepted rows above
\* the first "---".
FirstSeparator ==
    IF \E i \in DOMAIN ledgerText : ledgerText[i].k = "separator"
    THEN CHOOSE i \in DOMAIN ledgerText :
            /\ ledgerText[i].k = "separator"
            /\ \A j \in 1..(i - 1) : ledgerText[j].k # "separator"
    ELSE Len(ledgerText) + 1

FileRowLines == {i \in DOMAIN ledgerText : ledgerText[i].k = "row" /\ i < FirstSeparator}

\* The place of the row of line i in date order, rows of one date in file order.
PlaceInDateOrder(i) ==
    1 + Cardinality({j \in FileRowLines : ledgerText[j].date < ledgerText[i].date})
      + Cardinality({j \in FileRowLines : ledgerText[j].date = ledgerText[i].date /\ j < i})

\* The opening balance declared for an account (the last declaration counts),
\* 0 for an undeclared account.
DeclaredOpening(account) ==
    LET decl == {i \in DOMAIN ledgerText : /\ ledgerText[i].k = "account"
                                           /\ i < FirstSeparator
                                           /\ ledgerText[i].name = account}
    IN IF decl = {} THEN 0
       ELSE ledgerText[CHOOSE i \in decl : \A j \in decl : j <= i].balance

\* The balance of `account` after the first n transactions of the ledger.
RECURSIVE BalanceAfter(_, _)
BalanceAfter(account, n) ==
    IF n = 0 THEN DeclaredOpening(account)
    ELSE LET tx == ledger.data.transactions[n]
         IN BalanceAfter(account, n - 1)
              + (IF tx.account = account THEN tx.amount ELSE 0)
              - (IF tx.targetAccount = account THEN tx.amount ELSE 0)

\* C18: the rows are the text's transactions in ascending date order, those
\* of one date in file order, and each row's running balance is the balance
\* of its account right after that transaction, counted from the declared
\* opening balance (0 when undeclared).
C18_RunningBalance ==
    /\ Len(ledger.computed.rows) = Cardinality(FileRowLines)
    /\ \A i \in FileRowLines :
          LET row == ledger.computed.rows[PlaceInDateOrder(i)]
          IN /\ row.date = ledgerText[i].date
             /\ row.amount = ledgerText[i].amount
             /\ row.account = ledgerText[i].account
             /\ row.categories = ledgerText[i].tags
    /\ \A n \in DOMAIN ledger.computed.rows :
          ledger.computed.rows[n].runningBalance
              = BalanceAfter(ledger.computed.rows[n].account, n)

\* Is line i below the first "---"?
InDirectives(i) == i > FirstSeparator

\* The non-blank, non-comment lines that are no "---", table separator,
\* header row, account declaration, accepted transaction row or, below "---",
\* accepted directive.
UnparseableLines ==
    {i \in DOMAIN ledgerText :
        /\ ledgerText[i].k \notin {"blank", "comment", "separator", "tableseparator",
                                   "header", "account", "row"}
        /\ ~(InDirectives(i) /\ ledgerText[i].k = "directive")}

\* The same with the section a line stands in taken into account: above the
\* first "---" a directive is unparseable, below it everything but a directive.
UnparseableInSection ==
    {i \in DOMAIN ledgerText :
        /\ ledgerText[i].k \notin {"blank", "comment", "separator"}
        /\ IF InDirectives(i) THEN ledgerText[i].k # "directive"
           ELSE ledgerText[i].k \notin {"tableseparator", "header", "account", "row"}}

\* The text without the lines of `bad`.
RECURSIVE WithoutLines(_, _, _)
WithoutLines(text, bad, i) ==
    IF i > Len(text) THEN <<>>
    ELSE (IF i \in bad THEN <<>> ELSE <<text[i]>>) \o WithoutLines(text, bad, i + 1)

\* One error per line of `bad`, with its 1-based number, in line order, and
\* the accounts, transactions and directives of the text without them.
ErrorsAre(bad) ==
    /\ Len(ledger.data.errors) = Cardinality(bad)
    /\ \A n \in DOMAIN ledger.data.errors :
          /\ ledger.data.errors[n].line \in bad
          /\ \A m \in DOMAIN ledger.data.errors :
                m < n => ledger.data.errors[m].line < ledger.data.errors[n].line
    /\ LET rest == parseLedger(WithoutLines(ledgerText, bad, 1))
       IN /\ ledger.data.accounts = rest.accounts
          /\ ledger.data.transactions = rest.transactions
          /\ ledger.data.directives = rest.directives

\* C19 as stated: every line that is none of the accepted kinds adds exactly
\* one error with its line number, and the rest is parsed as if those lines
\* were absent.
C19_ErrorPerUnparseableLine == ErrorsAre(UnparseableLines)

\* C19 with the sections made explicit: below the first "---" every line
\* that is not a directive (an account declaration or a transaction row
\* too) adds the error.
C19_ErrorPerLineOfItsSection == ErrorsAre(UnparseableInSection)

C19_Witness ==
    /\ last.op = "ledger"
    /\ Len(ledger.data.errors) = 1
    /\ ledger.data.errors[1].line = 1
    /\ Len(ledger.data.transactions) = 2
    /\ ledger.data.transactions[1].date < ledger.data.transactions[2].date

\* The sum of the amounts, and the number, of the first n transactions that
\* carry tag c (for "uncategorized": that carry no tag).
Carries(tx, c) ==
    IF c = "uncategorized" THEN tx.categories = <<>>
    ELSE \E k \in DOMAIN tx.categories : tx.categories[k] = c

RECURSIVE TagTotal(_, _)
TagTotal(c, n) ==
    IF n = 0 THEN 0
    ELSE TagTotal(c, n - 1)
           + (IF Carries(ledger.data.transactions[n], c)
              THEN ledger.data.transactions[n].amount ELSE 0)

TagCount(c) ==
    Cardinality({n \in DOMAIN ledger.data.transactions : Carries(ledger.data.transactions[n], c)})

\* C20: for every tag the summary's total is the sum of the amounts of the
\* transactions carrying it and its count their number; untagged
\* transactions are counted under uncategorized and nowhere else, tagged
\* ones never under uncategorized.
C20_CategorySummary ==
    \A c \in {"food", "fun", "uncategorized"} :
        IF TagCount(c) = 0
        THEN \A s \in DOMAIN ledger.computed.categorySummaries :
                ledger.computed.categorySummaries[s].category # c
        ELSE \E s \in DOMAIN ledger.computed.categorySummaries :
                /\ ledger.computed.categorySummaries[s].category = c
                /\ ledger.computed.categorySummaries[s].total
                      = TagTotal(c, Len(ledger.data.transactions))
                /\ ledger.computed.categorySummaries[s].count = TagCount(c)

\* The accounts of the ledger: declared, or seen in a transaction.
LedgerAccounts ==
    {ledger.data.accounts[i].name : i \in DOMAIN ledger.data.accounts}
        \cup {ledger.data.transactions[i].account : i \in DOMAIN ledger.data.transactions}
        \cup {ledger.data.transactions[i].targetAccount :
                i \in {j \in DOMAIN ledger.data.transactions :
                          ledger.data.transactions[j].targetAccount # Null}}

\* What the n first transactions change on `account`: a transfer adds its
\* amount to its source and takes it from its target, any other transaction
\* adds its amount to its own account, and nothing else changes.
RECURSIVE ChangeBy(_, _)
ChangeBy(account, n) ==
    IF n = 0 THEN 0
    ELSE LET tx == ledger.data.transactions[n]
         IN ChangeBy(account, n - 1)
              + (IF tx.account = account THEN tx.amount ELSE 0)
              - (IF tx.targetAccount # Null /\ tx.targetAccount = account THEN tx.amount ELSE 0)

RECURSIVE SumOfBalances(_)
SumOfBalances(n) ==
    IF n = 0 THEN 0
    ELSE SumOfBalances(n - 1) + ledger.computed.accountBalances[n].balance

RECURSIVE SumOfOpenings(_)
SumOfOpenings(n) ==
    IF n = 0 THEN 0
    ELSE SumOfOpenings(n - 1) + DeclaredOpening(ledger.computed.accountBalances[n].name)

RECURSIVE SumOfNonTransfers(_)
SumOfNonTransfers(n) ==
    IF n = 0 THEN 0
    ELSE SumOfNonTransfers(n - 1)
           + (IF ledger.data.transactions[n].targetAccount = Null
              THEN ledger.data.transactions[n].amount ELSE 0)

\* C30: every account is listed once with its opening balance (0 when first
\* seen in a transaction) changed by the transactions on it alone, a
\* transfer adding its amount to the source and taking it from the target:
\* transfers leave the sum of all balances unchanged.
C30_TransferConservesTotal ==
    /\ {ledger.computed.accountBalances[i].name : i \in DOMAIN ledger.computed.accountBalances}
          = LedgerAccounts
    /\ \A i, j \in DOMAIN ledger.computed.accountBalances :
          ledger.computed.accountBalances[i].name = ledger.computed.accountBalances[j].name
              => i = j
    /\ \A i \in DOMAIN ledger.computed.accountBalances :
          ledger.computed.accountBalances[i].balance
              = DeclaredOpening(ledger.computed.accountBalances[i].name)
                  + ChangeBy(ledger.computed.accountBalances[i].name,
                             Len(ledger.data.transactions))
    /\ SumOfBalances(Len(ledger.computed.accountBalances))
          = SumOfOpenings(Len(ledger.computed.accountBalances))
              + SumOfNonTransfers(Len(ledger.data.transactions))

\* A transfer to an account first seen in it, next to a declared account
\* that it leaves alone.
C30_Witness ==
    /\ last.op = "ledger"
    /\ \E n \in DOMAIN ledger.data.transactions :
          /\ ledger.data.transactions[n].targetAccount = "Bank"
          /\ ledger.data.transactions[n].account = "Cash"
    /\ \E i \in DOMAIN ledger.computed.accountBalances :
          /\ ledger.computed.accountBalances[i].name = "Bank"
          /\ ledger.computed.accountBalances[i].balance = 400
    /\ \E i \in DOMAIN ledger.computed.accountBalances :
          /\ ledger.computed.accountBalances[i].name = "Savings"
          /\ ledger.computed.accountBalances[i].balance = 2500
    /\ \E i \in DOMAIN ledger.computed.accountBalances :
          /\ ledger.computed.accountBalances[i].name = "Cash"
          /\ ledger.computed.accountBalances[i].balance = -400

(***************************************************************************)
(* The schema catalog (schemas.ts, schema-store.ts, mergeSchemaResults)    *)
(* and the validator (validateOperations).  A type schema is a record of   *)
(* its name, its aliases and its description, which stands for all its     *)
(* other fields; a node type's name is a string as a role is, a relation   *)
(* or attribute type's name is a sequence of words as in an operation.     *)
(***************************************************************************)
TypeSchema(name, aliases, description) ==
    [name |-> name, aliases |-> aliases, description |-> description]

\* schemas.ts: of each list, the entries the texts below can name and one or
\* two they cannot, in the order of the file.
DefaultSchemas ==
    [isNull |-> FALSE,
     nodeTypes |-> << TypeSchema("class", <<>>, "default"),
                      TypeSchema("individual", <<>>, "default"),
                      TypeSchema("Molecule", <<>>, "default"),
                      TypeSchema("Transition", <<>>, "default") >>,
     relationTypes |-> << TypeSchema(<<"is_a">>, << <<"is", "a">> >>, "default"),
                          TypeSchema(<<"part_of">>, <<>>, "default"),
                          TypeSchema(HasPriorState, <<>>, "default") >>,
     attributeTypes |-> << TypeSchema(<<"mass">>, <<>>, "default"),
                           TypeSchema(<<"temperature">>, <<>>, "default") >>,
     transitionTypes |-> << TypeSchema(<<"transform">>, <<>>, "default"),
                            TypeSchema(<<"create">>, <<>>, "default") >>,
     functionTypes |-> << TypeSchema(<<"atomicMass">>, <<>>, "default") >>]

\* for (const item of items) map.set(item.name, item), on a Map kept as the
\* sequence of its values in insertion order: a known name keeps its place
\* and takes the new value.
RECURSIVE MapSetAll(_, _)
MapSetAll(map, items) ==
    IF items = <<>> THEN map
    ELSE LET item == Head(items)
             next == IF \E i \in DOMAIN map : map[i].name = item.name
                     THEN [i \in DOMAIN map |-> IF map[i].name = item.name THEN item ELSE map[i]]
                     ELSE Append(map, item)
         IN MapSetAll(next, Tail(items))

\* mergeByName with the two loops exchanged: the defaults are set last.
mergeByName_DefaultsLast(defaults, user) == MapSetAll(MapSetAll(<<>>, user), defaults)

\* mergeByName
mergeByName(defaults, user) == MapSetAll(MapSetAll(<<>>, defaults), user)

\* mergeSchemaResults(results).schemas: per kind, one map over all results in
\* order (last wins).
mergeSchemaResults(results) ==
    LET maps[i \in 0..Len(results)] ==
            [k \in DOMAIN NullSchemas |->
                IF k = "isNull" THEN FALSE
                ELSE IF i = 0 THEN <<>>
                ELSE MapSetAll(maps[i - 1][k], results[i][k])]
    IN maps[Len(results)]

\* setUserSchemas
setUserSchemas(store, schemas) ==
    [currentUserSchemas |-> schemas, storeVersion |-> store.storeVersion + 1]

\* getMergedSchemas
getMergedSchemas(store) ==
    IF store.currentUserSchemas.isNull THEN DefaultSchemas
    ELSE [k \in DOMAIN DefaultSchemas |->
            IF k = "isNull" THEN FALSE
            ELSE mergeByName(DefaultSchemas[k], store.currentUserSchemas[k])]

\* validateOperations, first loop: nodeRoles.set(op.id, role) for every
\* addNode, a later one replacing an earlier one's role.
RECURSIVE nodeRoles(_)
nodeRoles(ops) ==
    IF ops = <<>> THEN EmptyMap
    ELSE LET op == ops[Len(ops)]
             before == nodeRoles(SubSeq(ops, 1, Len(ops) - 1))
         IN IF op.type = "addNode" THEN MapSet(before, op.id, RoleOfAddNode(op)) ELSE before

\* Relation names that stand for class-to-class subsumption.
IS_A_NAMES == {<<"is_a">>, <<"is", "a">>}

\* validateOperations that never looks at the schemas it is given.
validateOperations_DefaultsOnly(ops, schemas) ==
    LET roles == nodeRoles(ops)
        Known(types, name) == \E i \in DOMAIN types : types[i].name = name
        KnownOrAlias(types, name) ==
            \E i \in DOMAIN types :
                \/ types[i].name = name
                \/ \E j \in DOMAIN types[i].aliases : types[i].aliases[j] = name
        Warnings(op) ==
            IF op.type = "addNode"
            THEN IF /\ op.optRole # Null
                    /\ op.optRole # "individual"
                    /\ op.optRole # "class"
                    /\ ~Known(DefaultSchemas.nodeTypes, op.optRole)
                 THEN << [kind |-> "Unknown node type", about |-> <<op.optRole>>] >>
                 ELSE <<>>
            ELSE IF op.type = "addAttribute"
            THEN IF ~Known(DefaultSchemas.attributeTypes, op.name)
                 THEN << [kind |-> "Unknown attribute type", about |-> op.name] >>
                 ELSE <<>>
            ELSE IF op.type = "addRelation"
            THEN (IF ~KnownOrAlias(DefaultSchemas.relationTypes, op.name)
                  THEN << [kind |-> "Unknown relation type", about |-> op.name] >>
                  ELSE <<>>)
                 \o (IF /\ op.name \in IS_A_NAMES
                        /\ op.source \in DOMAIN roles
                        /\ roles[op.source] = "individual"
                     THEN << [kind |-> "is a from an individual", about |-> op.source] >>
                     ELSE <<>>)
            ELSE <<>>
        Forms(id) == {ops[i].base_name : i \in {j \in DOMAIN ops : ops[j].type = "addNode" /\ ops[j].id = id}}
        PerOp[i \in 0..Len(ops)] ==
            IF i = 0 THEN <<>> ELSE PerOp[i - 1] \o Warnings(ops[i])
        PerNode[i \in 0..Len(ops)] ==
            IF i = 0 THEN <<>>
            ELSE PerNode[i - 1]
                   \o (IF /\ ops[i].type = "addNode"
                          /\ \A j \in 1..(i - 1) :
                                ~(ops[j].type = "addNode" /\ ops[j].id = ops[i].id)
                          /\ Cardinality(Forms(ops[i].id)) > 1
                       THEN << [kind |-> "Multiple forms", about |-> ops[i].id] >>
                       ELSE <<>>)
    IN PerOp[Len(ops)] \o PerNode[Len(ops)]

\* validateOperations(operations, schemas): a warning is a record of its
\* kind and of what its message names.  The display name of an addNode is
\* its name as written, which base_name holds for the texts below.
validateOperations(ops, schemas) ==
    LET roles == nodeRoles(ops)
        Known(types, name) == \E i \in DOMAIN types : types[i].name = name
        KnownOrAlias(types, name) ==
            \E i \in DOMAIN types :
                \/ types[i].name = name
                \/ \E j \in DOMAIN types[i].aliases : types[i].aliases[j] = name
        Warnings(op) ==
            IF op.type = "addNode"
            THEN IF /\ op.optRole # Null
                    /\ op.optRole # "individual"
                    /\ op.optRole # "class"
                    /\ ~Known(schemas.nodeTypes, op.optRole)
                 THEN << [kind |-> "Unknown node type", about |-> <<op.optRole>>] >>
                 ELSE <<>>
            ELSE IF op.type = "addAttribute"
            THEN IF ~Known(schemas.attributeTypes, op.name)
                 THEN << [kind |-> "Unknown attribute type", about |-> op.name] >>
                 ELSE <<>>
            ELSE IF op.type = "addRelation"
            THEN (IF ~KnownOrAlias(schemas.relationTypes, op.name)
                  THEN << [kind |-> "Unknown relation type", about |-> op.name] >>
                  ELSE <<>>)
                 \o (IF /\ op.name \in IS_A_NAMES
                        /\ op.source \in DOMAIN roles
                        /\ roles[op.source] = "individual"
                     THEN << [kind |-> "is a from an individual", about |-> op.source] >>
                     ELSE <<>>)
            ELSE <<>>
        Forms(id) == {ops[i].base_name : i \in {j \in DOMAIN ops : ops[j].type = "addNode" /\ ops[j].id = id}}
        PerOp[i \in 0..Len(ops)] ==
            IF i = 0 THEN <<>> ELSE PerOp[i - 1] \o Warnings(ops[i])
        PerNode[i \in 0..Len(ops)] ==
            IF i = 0 THEN <<>>
            ELSE PerNode[i - 1]
                   \o (IF /\ ops[i].type = "addNode"
                          /\ \A j \in 1..(i - 1) :
                                ~(ops[j].type = "addNode" /\ ops[j].id = ops[i].id)
                          /\ Cardinality(Forms(ops[i].id)) > 1
                       THEN << [kind |-> "Multiple forms", about |-> ops[i].id] >>
                       ELSE <<>>)
    IN PerOp[Len(ops)] \o PerNode[Len(ops)]

(***************************************************************************)
(* The component on a text typed line by line, next to schema blocks that  *)
(* the note's renderer extracts, with the "Validate" button.               *)
(***************************************************************************)
MaxValidatedLines == 2
MaxStoreVersion == 2

\* parseSchemaBlock's result for a schema block declaring the given types.
SchemaBlock(nodeTypes, relationTypes) ==
    [NullSchemas EXCEPT !.isNull = FALSE, !.nodeTypes = nodeTypes, !.relationTypes = relationTypes]

\* The schema blocks of the note, in document order: none; "Gene"; "Gene"
\* declared twice; a node type named as a default is, with a relation type;
\* both of the latter.
DeclaredSchemas ==
    LET gene == SchemaBlock(<< TypeSchema("Gene", <<>>, "user") >>, <<>>)
        geneRevised == SchemaBlock(<< TypeSchema("Gene", <<>>, "user, revised") >>, <<>>)
        molecule == SchemaBlock(<< TypeSchema("Molecule", <<>>, "user") >>,
                                << TypeSchema(<<"regulates">>, <<>>, "user") >>)
    IN { <<>>, <<gene>>, <<gene, geneRevised>>, <<molecule>>, <<gene, molecule>> }

\* "# A", "# A [Gene]", "<is a> A;", "<regulates> B;", "length: 0;", "mass: 0;"
ValidatedTextLines ==
    { NodeLine(<<"A">>, Null, <<>>),
      NodeLine(<<"A">>, "Gene", <<>>),
      RelLine(<<"is", "a">>, << Target(FALSE, 0, <<"A">>, <<>>) >>),
      RelLine(<<"regulates">>, << Target(FALSE, 0, <<"B">>, <<>>) >>),
      AttrLine(<<"length">>, "0", Null),
      AttrLine(<<"mass">>, "0", Null) }

InitValidate == Mount(<<>>)

\* The user types one more line of the nodeBook block.
EditValidated(line) ==
    /\ Len(code) < MaxValidatedLines
    /\ Render(Append(code, line))

\* The markdown-it rule on a render of the note whose schema blocks parse to
\* `results`.
ExtractSchemas(results) ==
    /\ schemaStore.storeVersion < MaxStoreVersion
    /\ schemaStore' = IF Len(results) > 0
                      THEN setUserSchemas(schemaStore, mergeSchemaResults(results))
                      ELSE setUserSchemas(schemaStore, NullSchemas)
    /\ last' = [op |-> "schemas", t |-> <<>>, before |-> marking, enabled |-> FALSE,
                mc |-> morphCounter, bmc |-> basicMorphCounter]
    /\ UNCHANGED <<code, morphCounter, basicMorphCounter, operations, graphData, marking,
                   initialTokens, inMemoryGraph, ledgerText, ledger, pendingFires,
                   validation, registry>>

\* handleValidate
handleValidate ==
    /\ validation' = [validationWarnings |->
                          validateOperations(operations, getMergedSchemas(schemaStore)),
                      hasValidated |-> TRUE]
    /\ last' = [op |-> "validate", t |-> <<>>, before |-> marking, enabled |-> FALSE,
                mc |-> morphCounter, bmc |-> basicMorphCounter,
                operations |-> operations, graphData |-> graphData]
    /\ UNCHANGED <<code, morphCounter, basicMorphCounter, operations, graphData, marking,
                   initialTokens, inMemoryGraph, ledgerText, ledger, pendingFires,
                   schemaStore, registry>>

NextValidate ==
    \/ \E line \in ValidatedTextLines : EditValidated(line)
    \/ \E results \in DeclaredSchemas : ExtractSchemas(results)
    \/ handleValidate

SpecValidate == InitValidate /\ [][NextValidate]_vars

\* The names a list of type schemas declares.
NamesOf(types) == {types[i].name : i \in DOMAIN types}

\* C21: for every kind of type the merged schemas hold one entry per name,
\* the names being those of the defaults and of the user's types; the entry
\* of a name the user declares is the user's, the entry of any other name is
\* the default; with no user schemas set the defaults are returned as they
\* are.
C21_MergedSchemas ==
    LET merged == getMergedSchemas(schemaStore)
        user == schemaStore.currentUserSchemas
    IN \A k \in SchemaKinds :
          /\ user.isNull => merged[k] = DefaultSchemas[k]
          /\ \A i, j \in DOMAIN merged[k] : merged[k][i].name = merged[k][j].name => i = j
          /\ NamesOf(merged[k]) = NamesOf(DefaultSchemas[k]) \cup NamesOf(user[k])
          /\ \A i \in DOMAIN merged[k] :
                IF merged[k][i].name \in NamesOf(user[k])
                THEN \E u \in DOMAIN user[k] : merged[k][i] = user[k][u]
                ELSE \E d \in DOMAIN DefaultSchemas[k] : merged[k][i] = DefaultSchemas[k][d]

\* User schemas that redeclare a default node type and add a relation type.
C21_Witness ==
    /\ last.op = "schemas"
    /\ ~schemaStore.currentUserSchemas.isNull
    /\ \E i \in DOMAIN getMergedSchemas(schemaStore).nodeTypes :
          getMergedSchemas(schemaStore).nodeTypes[i] = TypeSchema("Molecule", <<>>, "user")
    /\ \E i \in DOMAIN getMergedSchemas(schemaStore).nodeTypes :
          getMergedSchemas(schemaStore).nodeTypes[i] = TypeSchema("class", <<>>, "default")
    /\ \E i \in DOMAIN getMergedSchemas(schemaStore).relationTypes :
          getMergedSchemas(schemaStore).relationTypes[i].name = <<"regulates">>

\* The names and aliases a list of type schemas declares.
NamesAndAliasesOf(types) ==
    NamesOf(types) \cup UNION {{types[i].aliases[j] : j \in DOMAIN types[i].aliases} : i \in DOMAIN types}

\* One warning for each operation, in stream order, that names a node type,
\* an attribute or a relation the schemas do not declare.
UnknownNames(ops, schemas) ==
    LET For(op) ==
            IF op.type = "addNode"
            THEN IF op.optRole \notin {Null, "individual", "class"} \cup NamesOf(schemas.nodeTypes)
                 THEN << [kind |-> "Unknown node type", about |-> <<op.optRole>>] >> ELSE <<>>
            ELSE IF op.type = "addAttribute"
            THEN IF op.name \notin NamesOf(schemas.attributeTypes)
                 THEN << [kind |-> "Unknown attribute type", about |-> op.name] >> ELSE <<>>
            ELSE IF op.type = "addRelation"
            THEN IF op.name \notin NamesAndAliasesOf(schemas.relationTypes)
                 THEN << [kind |-> "Unknown relation type", about |-> op.name] >> ELSE <<>>
            ELSE <<>>
        F[i \in 0..Len(ops)] == IF i = 0 THEN <<>> ELSE F[i - 1] \o For(ops[i])
    IN F[Len(ops)]

\* C22: the warnings of a validation that are about unknown names are one
\* for each operation naming a node type, attribute or relation that the
\* merged schemas do not declare (`individual` and `class` are never
\* unknown), in stream order; the validation leaves the operations and the
\* graph as they were, and the graph is the one assembled from the operations.
C22_ValidationIsAdvisory ==
    last.op = "validate" =>
        /\ validation.hasValidated
        /\ SelectSeq(validation.validationWarnings,
                     LAMBDA w : w.kind \in {"Unknown node type", "Unknown attribute type",
                                            "Unknown relation type"})
              = UnknownNames(operations, getMergedSchemas(schemaStore))
        /\ operations = last.operations
        /\ graphData = last.graphData
        /\ graphData = operationsToGraph(operations, 0).graph

\* A validation of a text that names a node type only the user declares and
\* an attribute nobody declares.
C22_Witness ==
    /\ last.op = "validate"
    /\ \E i \in DOMAIN operations : operations[i].type = "addNode" /\ operations[i].optRole = "Gene"
    /\ "Gene" \in NamesOf(schemaStore.currentUserSchemas.nodeTypes)
    /\ validation.validationWarnings
          = << [kind |-> "Unknown attribute type", about |-> <<"length">>] >>
    /\ Len(graphData.attributes) = 1

\* C28: for every `is a` relation of the stream whose source has an addNode,
\* the role validateOperations looks up for the source is the role of the
\* source's node in the assembled graph.
C28_ValidatorRoleIsGraphRole ==
    \A i \in DOMAIN operations :
        (/\ operations[i].type = "addRelation"
         /\ operations[i].name \in IS_A_NAMES
         /\ operations[i].source \in DOMAIN nodeRoles(operations))
            => \E n \in DOMAIN graphData.nodes :
                  /\ graphData.nodes[n].id = operations[i].source
                  /\ graphData.nodes[n].role = nodeRoles(operations)[operations[i].source]

(***************************************************************************)
(* morph-registry.ts: the MorphRegistry class.  A Map is the sequence of   *)
(* its [key, value] entries in insertion order; ids are strings.           *)
(***************************************************************************)
\* addMorph
addMorph(reg, morphId, nodeId, morphName, relationIds, attributeIds) ==
    LET morphData == [morphId |-> morphId, nodeId |-> nodeId, morphName |-> morphName,
                      relationIds |-> relationIds, attributeIds |-> attributeIds]
        Has(map, key) == \E i \in DOMAIN map : map[i].key = key
        Set(map, key, value) ==
            IF Has(map, key)
            THEN [i \in DOMAIN map |-> IF map[i].key = key THEN [key |-> key, value |-> value] ELSE map[i]]
            ELSE Append(map, [key |-> key, value |-> value])
        \* if (!map.has(key)) map.set(key, []); map.get(key).push(id)
        Push(map, key, id) ==
            LET present == IF Has(map, key) THEN map ELSE Set(map, key, <<>>)
            IN [i \in DOMAIN present |->
                  IF present[i].key = key
                  THEN [key |-> key, value |-> Append(present[i].value, id)]
                  ELSE present[i]]
        PushEach(map, keys) ==
            LET F[i \in 0..Len(keys)] == IF i = 0 THEN map ELSE Push(F[i - 1], keys[i], morphId)
            IN F[Len(keys)]
    IN [morphs |-> Set(reg.morphs, morphId, morphData),
        nodeMorphs |-> Push(reg.nodeMorphs, nodeId, morphId),
        relationMorphs |-> PushEach(reg.relationMorphs, relationIds),
        attributeMorphs |-> PushEach(reg.attributeMorphs, attributeIds)]

\* map.get(key) ?? [] on one of the registry's maps of lists, and
\* this.morphs.get(morphId) as the list of its matches (none, or one).
RegistryGet(map, key) ==
    LET hit == SelectSeq(map, LAMBDA e : e.key = key)
    IN IF hit = <<>> THEN <<>> ELSE hit[1].value

\* getNodeMorphs
getNodeMorphs(reg, nodeId) ==
    LET morphIds == RegistryGet(reg.nodeMorphs, nodeId)
        F[i \in 0..Len(morphIds)] ==
            IF i = 0 THEN <<>>
            ELSE IF \E j \in DOMAIN reg.morphs : reg.morphs[j].key = morphIds[i]
                 THEN Append(F[i - 1], RegistryGet(reg.morphs, morphIds[i]))
                 ELSE F[i - 1]
    IN F[Len(morphIds)]

\* getMorphRelations
getMorphRelations(reg, morphId) ==
    IF \E j \in DOMAIN reg.morphs : reg.morphs[j].key = morphId
    THEN RegistryGet(reg.morphs, morphId).relationIds ELSE <<>>

\* getMorphAttributes
getMorphAttributes(reg, morphId) ==
    IF \E j \in DOMAIN reg.morphs : reg.morphs[j].key = morphId
    THEN RegistryGet(reg.morphs, morphId).attributeIds ELSE <<>>

\* getRelationMorphs
getRelationMorphs(reg, relationId) == RegistryGet(reg.relationMorphs, relationId)

\* getAttributeMorphs
getAttributeMorphs(reg, attributeId) == RegistryGet(reg.attributeMorphs, attributeId)

\* The filter without its `seen` set: an id repeated in the input is kept
\* as often as it occurs.
filterRelationsForMorph_KeepsRepeats(reg, relations, activeMorphIds) ==
    LET allMorphRelations ==
            UNION {{getMorphRelations(reg, activeMorphIds[k])[i] :
                        i \in DOMAIN getMorphRelations(reg, activeMorphIds[k])} :
                   k \in DOMAIN activeMorphIds}
    IN SelectSeq(relations, LAMBDA rel : rel.id \in allMorphRelations)

\* filterRelationsForMorph (activeMorphIds as the array the method makes of
\* its argument)
filterRelationsForMorph(reg, relations, activeMorphIds) ==
    LET allMorphRelations ==
            UNION {{getMorphRelations(reg, activeMorphIds[k])[i] :
                        i \in DOMAIN getMorphRelations(reg, activeMorphIds[k])} :
                   k \in DOMAIN activeMorphIds}
        F[i \in 0..Len(relations)] ==
            IF i = 0 THEN [seen |-> {}, kept |-> <<>>]
            ELSE IF relations[i].id \notin allMorphRelations \/ relations[i].id \in F[i - 1].seen
                 THEN F[i - 1]
                 ELSE [seen |-> F[i - 1].seen \cup {relations[i].id},
                       kept |-> Append(F[i - 1].kept, relations[i])]
    IN F[Len(relations)].kept

\* filterAttributesForMorph
filterAttributesForMorph(reg, attributes, activeMorphIds) ==
    LET allMorphAttributes ==
            UNION {{getMorphAttributes(reg, activeMorphIds[k])[i] :
                        i \in DOMAIN getMorphAttributes(reg, activeMorphIds[k])} :
                   k \in DOMAIN activeMorphIds}
        F[i \in 0..Len(attributes)] ==
            IF i = 0 THEN [seen |-> {}, kept |-> <<>>]
            ELSE IF attributes[i].id \notin allMorphAttributes \/ attributes[i].id \in F[i - 1].seen
                 THEN F[i - 1]
                 ELSE [seen |-> F[i - 1].seen \cup {attributes[i].id},
                       kept |-> Append(F[i - 1].kept, attributes[i])]
    IN F[Len(attributes)].kept

\* clear
clear(reg) ==
    [morphs |-> <<>>, nodeMorphs |-> <<>>, relationMorphs |-> <<>>, attributeMorphs |-> <<>>]

\* getStats
getStats(reg) ==
    [totalMorphs |-> Len(reg.morphs), totalNodes |-> Len(reg.nodeMorphs),
     totalRelations |-> Len(reg.relationMorphs), totalAttributes |-> Len(reg.attributeMorphs)]

(***************************************************************************)
(* A MorphRegistry driven by its callers.                                  *)
(***************************************************************************)
MaxMorphCalls == 2

RegistryMorphIds == {"m1", "m2"}
RegistryNodeIds == {"a", "b"}
RegistryRelationIds == {"r1", "r2"}
RegistryAttributeIds == {"t1", "t2"}

\* The relationIds and attributeIds arguments of the calls.
RegistryLists ==
    [relations |-> {<<>>, <<"r1">>, <<"r1", "r2">>}, attributes |-> {<<>>, <<"t1">>}]

\* The item lists handed to the filters: `n` tells the items of one id apart.
FilterItems(a, b) ==
    { << [id |-> a, n |-> 1], [id |-> b, n |-> 2], [id |-> a, n |-> 3] >>,
      << [id |-> b, n |-> 1] >> }

\* The activeMorphIds handed to the filters ("m9" is never registered).
FilterMorphIds == { <<"m1">>, <<"m1", "m2">>, <<"m9", "m2">> }

\* A call of addMorph, of which at most MaxMorphCalls are made on a registry
\* between two clears.
CallAddMorph(morphId, nodeId, relationIds, attributeIds) ==
    /\ LET calls[i \in 0..Len(registry.nodeMorphs)] ==
               IF i = 0 THEN 0 ELSE calls[i - 1] + Len(registry.nodeMorphs[i].value)
       IN calls[Len(registry.nodeMorphs)] < MaxMorphCalls
    /\ registry' = addMorph(registry, morphId, nodeId, morphId, relationIds, attributeIds)
    /\ last' = [op |-> "addMorph", t |-> <<>>, before |-> marking, enabled |-> FALSE,
                mc |-> morphCounter, bmc |-> basicMorphCounter]
    /\ UNCHANGED <<code, morphCounter, basicMorphCounter, operations, graphData, marking,
                   initialTokens, inMemoryGraph, ledgerText, ledger, pendingFires,
                   schemaStore, validation>>

CallClear ==
    /\ registry' = clear(registry)
    /\ last' = [op |-> "clear", t |-> <<>>, before |-> marking, enabled |-> FALSE,
                mc |-> morphCounter, bmc |-> basicMorphCounter]
    /\ UNCHANGED <<code, morphCounter, basicMorphCounter, operations, graphData, marking,
                   initialTokens, inMemoryGraph, ledgerText, ledger, pendingFires,
                   schemaStore, validation>>

\* A call of filterRelationsForMorph or filterAttributesForMorph: the
\* registry is only read; `last` keeps the arguments and the result.
CallFilter(kind, items, activeMorphIds) ==
    /\ last' = [op |-> "filter", t |-> <<>>, before |-> marking, enabled |-> FALSE,
                mc |-> morphCounter, bmc |-> basicMorphCounter,
                kind |-> kind, items |-> items, activeMorphIds |-> activeMorphIds,
                result |-> IF kind = "relations"
                           THEN filterRelationsForMorph(registry, items, activeMorphIds)
                           ELSE filterAttributesForMorph(registry, items, activeMorphIds)]
    /\ UNCHANGED <<code, morphCounter, basicMorphCounter, operations, graphData, marking,
                   initialTokens, inMemoryGraph, ledgerText, ledger, pendingFires,
                   schemaStore, validation, registry>>

InitRegistry == Mount(<<>>)

NextRegistry ==
    \/ \E morphId \in RegistryMorphIds, nodeId \in RegistryNodeIds,
          relationIds \in RegistryLists.relations, attributeIds \in RegistryLists.attributes :
            CallAddMorph(morphId, nodeId, relationIds, attributeIds)
    \/ CallClear
    \/ \E items \in FilterItems("r1", "r2"), ids \in FilterMorphIds : CallFilter("relations", items, ids)
    \/ \E items \in FilterItems("t1", "t2"), ids \in FilterMorphIds : CallFilter("attributes", items, ids)

SpecRegistry == InitRegistry /\ [][NextRegistry]_vars

\* The ids registered under one of the morph ids: those of the lists the
\* morph was last registered with.
RegisteredUnder(kind, morphIds) ==
    UNION {{IF kind = "relations" THEN registry.morphs[j].value.relationIds[i]
                                  ELSE registry.morphs[j].value.attributeIds[i] :
               i \in DOMAIN (IF kind = "relations" THEN registry.morphs[j].value.relationIds
                                                    ELSE registry.morphs[j].value.attributeIds)} :
           j \in {x \in DOMAIN registry.morphs :
                     \E k \in DOMAIN morphIds : registry.morphs[x].key = morphIds[k]}}

\* C26: a filter returns the input items whose id is registered under one
\* of the given morph ids, the first item of each id only, in input order.
C26_FilterByMorph ==
    last.op = "filter" =>
        LET keep == {i \in DOMAIN last.items :
                        /\ last.items[i].id \in RegisteredUnder(last.kind, last.activeMorphIds)
                        /\ \A j \in 1..(i - 1) : last.items[j].id # last.items[i].id}
            F[i \in 0..Len(last.items)] ==
                IF i = 0 THEN <<>>
                ELSE IF i \in keep THEN Append(F[i - 1], last.items[i]) ELSE F[i - 1]
        IN last.result = F[Len(last.items)]

\* A filter given an unknown morph id next to a registered one, and an
\* input that repeats a registered id and holds an unregistered one.
C26_Witness ==
    /\ last.op = "filter"
    /\ last.activeMorphIds = <<"m9", "m2">>
    /\ Len(last.items) = 3
    /\ last.result = << last.items[1] >>

\* C29: the forward and the reverse index agree on relations and on
\* attributes, getNodeMorphs lists no morph twice, and after clear every
\* query is empty and every count is 0.
C29_IndexesAgree ==
    /\ \A m \in RegistryMorphIds, r \in RegistryRelationIds :
          (\E i \in DOMAIN getMorphRelations(registry, m) : getMorphRelations(registry, m)[i] = r)
              <=> (\E i \in DOMAIN getRelationMorphs(registry, r) : getRelationMorphs(registry, r)[i] = m)
    /\ \A m \in RegistryMorphIds, a \in RegistryAttributeIds :
          (\E i \in DOMAIN getMorphAttributes(registry, m) : getMorphAttributes(registry, m)[i] = a)
              <=> (\E i \in DOMAIN getAttributeMorphs(registry, a) : getAttributeMorphs(registry, a)[i] = m)
    /\ \A n \in RegistryNodeIds :
          \A i, j \in DOMAIN getNodeMorphs(registry, n) :
              getNodeMorphs(registry, n)[i].morphId = getNodeMorphs(registry, n)[j].morphId => i = j
    /\ last.op = "clear" =>
          /\ \A m \in RegistryMorphIds :
                getMorphRelations(registry, m) = <<>> /\ getMorphAttributes(registry, m) = <<>>
          /\ \A r \in RegistryRelationIds : getRelationMorphs(registry, r) = <<>>
          /\ \A a \in RegistryAttributeIds : getAttributeMorphs(registry, a) = <<>>
          /\ \A n \in RegistryNodeIds : getNodeMorphs(registry, n) = <<>>
          /\ getStats(registry) = [totalMorphs |-> 0, totalNodes |-> 0,
                                   totalRelations |-> 0, totalAttributes |-> 0]

====
